---- MODULE Spec2Model ----
(***************************************************************************)
(* Cache coordination layer of the Spotify dashboard: the cache store      *)
(* (memory tier, disk tier, lease lock, single-flight, counters) and the   *)
(* two route handlers built on it (GET /api/spotify/playlists and          *)
(* POST /api/spotify/artists), and the debug endpoint that publishes the   *)
(* counters (GET /api/debug/cache).                                        *)
(*                                                                         *)
(* Time is an integer clock (Date.now()).  The windows TTL / SWR / lease   *)
(* are environment-configurable numbers in the source; the model runs one  *)
(* small configuration of them.                                            *)
(***************************************************************************)
EXTENDS Integers, Sequences, FiniteSets, TLC

\* ------------------------------------------------------------ parameters

\* Bounds of the model (not program constants).
NumRequests == 2
MaxTicks == 1
NumCallers == 2
MaxAge == 6
MaxWindow == 3
MaxSize == 4
MaxWrites == 3
MaxReads == 2
NumChunks == 2

\* Program constants (all read from the environment with a default).
PLAYLISTS_TTL_MS == 1
PLAYLISTS_SWR_MS == 2
ARTISTS_TTL_MS == 2
ARTISTS_SWR_MS == 2
LOCK_LEASE_MS == 1
MAX_RETRIES == 3
RETRY_FALLBACK_MS == 1500
MAX_MEMORY_ITEMS == 2
MAX_DISK_BYTES == 3
CACHE_VERSION == 1

Routes == {"playlists", "artists"}
Keys == Routes
\* The keys of a store that also holds the playlists of a second user.
StoreKeys == Keys \cup {"playlists:2"}
Requests == 1..NumRequests
Callers == 1..NumCallers

\* The clock starts late enough for an entry of any age to have been written.
StartTime == ARTISTS_TTL_MS + ARTISTS_SWR_MS
EndTime == StartTime + MaxTicks

VARIABLES
    now,          \* Date.now()
    route,        \* the route (and so the cache key) the requests go to
    memoryCache,  \* the Map memoryCache, in insertion order
    inflight,     \* the Map inflight: key -> id of the registered task, 0 = none
    counters,     \* cacheMetrics counters
    cacheDir,     \* whether <data>/cache exists
    diskFault,    \* "none", "dir" (cache dir unwritable), "index" (index.json unwritable)
    file,         \* key -> content of <key>.json
    tmpFile,      \* key -> content of <key>.json.tmp
    index,        \* content of index.json, in key order of the object
    lockFile,     \* key -> content of <key>.lock
    req,          \* request id -> the handler's position and locals
    resp,         \* request id -> the response it returned
    task,         \* request id -> the refresh task that request started
    builds,       \* key -> number of invocations of the rebuild function
    upstream,     \* the outcomes a rebuild can have in this run
    caller,       \* lock-manager client id -> position in acquireLock / hold
    probe,        \* the last freshness evaluation: [age, ttl, swr, state]
    debugToken    \* process.env.CACHE_DEBUG_TOKEN, "" when not set

vars == <<now, route, memoryCache, inflight, counters, cacheDir, diskFault,
          file, tmpFile, index, lockFile, req, resp, task, builds, upstream, caller,
          probe, debugToken>>

\* ------------------------------------------------------------ payloads

\* A payload built by buildPlaylistsPayload / buildArtistsPayload at time t.
\* buildPlaylistsPayload stamps state "ok" itself; buildArtistsPayload returns
\* the bare payload.
DataPayload(r, t) ==
    [kind |-> "data", updatedAt |-> t,
     state |-> IF r = "playlists" THEN "ok" ELSE "none", errorCode |-> "none",
     size |-> 2]

\* { ...payload, state: "ok", lastGoodAt: payload.updatedAt }
WithOk(p) == [p EXCEPT !.state = "ok"]

WithStale_RefreshState(p) == [p EXCEPT !.state = "refreshing"]

\* { ...diskEnvelope.payload, cacheStatus: "stale", state: "stale", ... }
WithStale(p) == [p EXCEPT !.state = "stale"]

\* The empty payload written by a failed refresh.
ErrorPayload(t, code) ==
    [kind |-> "error", updatedAt |-> t, state |-> "error", errorCode |-> code,
     size |-> 1]

\* The empty placeholder of the async miss branch.
Placeholder(t) ==
    [kind |-> "placeholder", updatedAt |-> t, state |-> "refreshing",
     errorCode |-> "none", size |-> 1]

NoPayload ==
    [kind |-> "none", updatedAt |-> 0, state |-> "none", errorCode |-> "none",
     size |-> 0]

\* sha256 over JSON.stringify(payload): injective on the model's payloads.
computeChecksum(p) == <<p>>
EmptyChecksum == <<>>

\* ------------------------------------------------------------ freshness

TTL(r) == IF r = "playlists" THEN PLAYLISTS_TTL_MS ELSE ARTISTS_TTL_MS
SWR(r) == IF r = "playlists" THEN PLAYLISTS_SWR_MS ELSE ARTISTS_SWR_MS

getCacheState_NeverOk(ageMs, ttl, swr) ==
    IF ageMs < ttl + swr THEN "stale" ELSE "expired"

getCacheState_InclusiveTTL(ageMs, ttl, swr) ==
    IF ageMs <= ttl THEN "ok"
    ELSE IF ageMs < ttl + swr THEN "stale"
    ELSE "expired"

\* getCacheState(ageMs) of either route, with the route's two module constants
\* passed in.
getCacheState(ageMs, ttl, swr) ==
    IF ageMs < ttl THEN "ok"
    ELSE IF ageMs < ttl + swr THEN "stale"
    ELSE "expired"

\* ------------------------------------------------------------ counters

ZeroCounters ==
    [hit |-> 0, stale |-> 0, miss |-> 0, refresh |-> 0, error |-> 0,
     spotify429 |-> 0, read |-> 0, write |-> 0, evict |-> 0]

incCounter(c, k) == [c EXCEPT ![k] = @ + 1]

\* ------------------------------------------------------------ memory tier
\* memoryCache is a JS Map: a sequence of entries in insertion order.

MemPos(mem, k) ==
    IF \E i \in 1..Len(mem) : mem[i].key = k
    THEN CHOOSE i \in 1..Len(mem) : mem[i].key = k
    ELSE 0

MemHas(mem, k) == MemPos(mem, k) # 0

MemGet(mem, k) == mem[MemPos(mem, k)]

\* Map.delete
MemDelete(mem, k) == SelectSeq(mem, LAMBDA e : e.key # k)

\* Map.set: an existing key keeps its place, a new key goes last.
MemPut(mem, e) ==
    IF MemHas(mem, e.key)
    THEN [mem EXCEPT ![MemPos(mem, e.key)] = e]
    ELSE Append(mem, e)

MemRank_InsertionOrder(mem, i) == i - 1

\* Position of entry i in the stable sort of mem by lastAccessAt, from 0.
MemRank(mem, i) ==
    Cardinality({j \in 1..Len(mem) :
        \/ mem[j].lastAccessAt < mem[i].lastAccessAt
        \/ mem[j].lastAccessAt = mem[i].lastAccessAt /\ j < i})

enforceMemoryLimit_Skipped(mem) == mem

enforceMemoryLimit(mem) ==
    IF Len(mem) <= MAX_MEMORY_ITEMS THEN mem
    ELSE LET toRemove == Len(mem) - MAX_MEMORY_ITEMS
             gone == {mem[i].key : i \in {j \in 1..Len(mem) : MemRank(mem, j) < toRemove}}
         IN SelectSeq(mem, LAMBDA e : e.key \notin gone)

touchMemoryKey(mem, k, t) ==
    IF ~MemHas(mem, k) THEN mem
    ELSE [mem EXCEPT ![MemPos(mem, k)].lastAccessAt = t]

getMemoryCache_ExpiresInclusive(mem, c, k, t) ==
    IF ~MemHas(mem, k) \/ MemGet(mem, k).expiresAt <= t
    THEN [mem |-> MemDelete(mem, k), counters |-> c, found |-> FALSE,
          payload |-> NoPayload]
    ELSE [mem |-> touchMemoryKey(mem, k, t), counters |-> incCounter(c, "hit"),
          found |-> TRUE, payload |-> MemGet(mem, k).payload]

\* getMemoryCache: [mem, counters, found, entry] after the call at time t.
getMemoryCache(mem, c, k, t) ==
    IF ~MemHas(mem, k)
    THEN [mem |-> mem, counters |-> c, found |-> FALSE, payload |-> NoPayload]
    ELSE IF MemGet(mem, k).expiresAt < t
    THEN [mem |-> MemDelete(mem, k), counters |-> c, found |-> FALSE,
          payload |-> NoPayload]
    ELSE [mem |-> touchMemoryKey(mem, k, t), counters |-> incCounter(c, "hit"),
          found |-> TRUE, payload |-> MemGet(mem, k).payload]

setMemoryCache_NotStored(mem, k, payload, ttlMs, updatedAt, state, t) == mem

\* setMemoryCache(cacheKey, payload, ttlMs, {updatedAt, state}) at time t.
setMemoryCache(mem, k, payload, ttlMs, updatedAt, state, t) ==
    enforceMemoryLimit(MemPut(mem,
        [key |-> k, payload |-> payload, updatedAt |-> updatedAt,
         expiresAt |-> t + ttlMs, lastAccessAt |-> t, state |-> state]))

\* ------------------------------------------------------------ disk tier

\* Content of a cache file.  kind: "absent", "envelope", "legacy" (a JSON
\* object without a payload field), "primitive" (JSON that is not an object:
\* null, a number, a string, a boolean), "garbage" (not JSON), "unreadable"
\* (the read fails with an I/O error).
NoFile ==
    [kind |-> "absent", version |-> 0, updatedAt |-> 0, checksum |-> EmptyChecksum,
     payload |-> NoPayload]

Envelope(updatedAt, checksum, payload) ==
    [kind |-> "envelope", version |-> CACHE_VERSION, updatedAt |-> updatedAt,
     checksum |-> checksum, payload |-> payload]

\* A file an earlier version of the program left behind: the bare JSON of a
\* payload, without envelope.
LegacyFile(p) == [NoFile EXCEPT !.kind = "legacy", !.payload = p]

\* A file whose JSON is not an object.
PrimitiveFile == [NoFile EXCEPT !.kind = "primitive"]

readDiskCacheTry_NoLegacy(raw, t) ==
    IF raw.kind # "envelope"
    THEN [threw |-> raw.kind # "legacy", env |-> NoFile]
    ELSE [threw |-> FALSE,
          env |-> IF raw.checksum # EmptyChecksum
                     /\ raw.checksum # computeChecksum(raw.payload)
                  THEN NoFile
                  ELSE raw]

\* The try block of readDiskCache on the file content raw, at time t:
\* fs.readFile rejects on a missing or unreadable file, JSON.parse throws on
\* content that is not JSON, `"payload" in parsed` throws on a parsed value
\* that is not an object; otherwise the envelope, or NoFile for the null of a
\* checksum mismatch.
readDiskCacheTry(raw, t) ==
    IF raw.kind \in {"absent", "unreadable", "garbage", "primitive"}
    THEN [threw |-> TRUE, env |-> NoFile]
    ELSE LET envelope ==
                 IF raw.kind = "envelope" THEN raw
                 ELSE Envelope(t, computeChecksum(raw.payload), raw.payload)
         IN [threw |-> FALSE,
             env |-> IF envelope.checksum # EmptyChecksum
                        /\ envelope.checksum # computeChecksum(envelope.payload)
                     THEN NoFile
                     ELSE envelope]

readDiskCacheCatch_Rethrown(tried) == tried

\* The catch block of readDiskCache: return null.
readDiskCacheCatch(tried) ==
    IF tried.threw THEN [threw |-> FALSE, env |-> NoFile] ELSE tried

\* readDiskCache after fs.readFile was served with raw, at time t.
readDiskCache(raw, t) == readDiskCacheCatch(readDiskCacheTry(raw, t))

\* What the handlers get from readDiskCache: the envelope, or NoFile for null.
parseDiskCache(raw, t) == readDiskCache(raw, t).env

\* index.json: a sequence of [key, size, updatedAt, lastAccessAt] in the
\* object's key order.
IdxPos(idx, k) ==
    IF \E i \in 1..Len(idx) : idx[i].key = k
    THEN CHOOSE i \in 1..Len(idx) : idx[i].key = k
    ELSE 0

IdxPut_KeepExisting(idx, e) ==
    IF IdxPos(idx, e.key) # 0 THEN idx ELSE Append(idx, e)

IdxPut(idx, e) ==
    IF IdxPos(idx, e.key) # 0
    THEN [idx EXCEPT ![IdxPos(idx, e.key)] = e]
    ELSE Append(idx, e)

RECURSIVE IdxTotal(_)
IdxTotal(idx) ==
    IF idx = <<>> THEN 0 ELSE Head(idx).size + IdxTotal(Tail(idx))

IdxOldest_Newest(idx) ==
    CHOOSE i \in 1..Len(idx) :
        \A j \in 1..Len(idx) :
            \/ idx[i].lastAccessAt > idx[j].lastAccessAt
            \/ idx[i].lastAccessAt = idx[j].lastAccessAt /\ i >= j

\* The entry the sorted loop of evictIfNeeded visits first.
IdxOldest(idx) ==
    CHOOSE i \in 1..Len(idx) :
        \A j \in 1..Len(idx) :
            \/ idx[i].lastAccessAt < idx[j].lastAccessAt
            \/ idx[i].lastAccessAt = idx[j].lastAccessAt /\ i <= j

\* The loop of evictIfNeeded on disk state d = [cacheDir, file, index, counters].
RECURSIVE evictLoop(_)
evictLoop(d) ==
    IF d.index = <<>> \/ IdxTotal(d.index) <= MAX_DISK_BYTES THEN d
    ELSE LET k == d.index[IdxOldest(d.index)].key
         IN evictLoop([d EXCEPT
                !.file = [@ EXCEPT ![k] = NoFile],
                !.index = SelectSeq(@, LAMBDA e : e.key # k),
                !.counters = incCounter(@, "evict")])

evictIfNeeded_Skipped(d) == d

evictIfNeeded(d) ==
    IF IdxTotal(d.index) <= MAX_DISK_BYTES THEN d ELSE evictLoop(d)

\* The object writeDiskCache serializes:
\* { ...envelope, version, checksum: envelope.checksum || computeChecksum(payload) }.
storedEnvelope(envelope) ==
    Envelope(envelope.updatedAt,
             IF envelope.checksum # EmptyChecksum
             THEN envelope.checksum
             ELSE computeChecksum(envelope.payload),
             envelope.payload)

\* writeDiskCache up to incCounter("write"): mkdir, temp file, rename.
writeDiskCacheRenamed(d, k, envelope) ==
    [d EXCEPT !.cacheDir = TRUE,
              !.file = [@ EXCEPT ![k] = storedEnvelope(envelope)],
              !.counters = incCounter(@, "write")]

\* writeDiskCache from fs.stat to writeIndex(index), at time t.
writeDiskCacheIndexed(d, k, t) ==
    [d EXCEPT !.index = IdxPut(@,
        [key |-> k, size |-> d.file[k].payload.size,
         updatedAt |-> d.file[k].updatedAt, lastAccessAt |-> t])]

\* writeDiskCache(cacheKey, envelope) run to its end at time t under the
\* disk fault f: [d, threw].
writeDiskCache(d, k, envelope, f, t) ==
    IF f = "dir"
    THEN [d |-> d, threw |-> TRUE]
    ELSE LET renamed == writeDiskCacheRenamed(d, k, envelope)
         IN IF f = "index"
            THEN [d |-> renamed, threw |-> TRUE]
            ELSE [d |-> evictIfNeeded(writeDiskCacheIndexed(renamed, k, t)),
                  threw |-> FALSE]

\* ------------------------------------------------------------ lock manager

NoLock == [kind |-> "absent", ownerId |-> 0, acquiredAt |-> 0, expiresAt |-> 0]

Lease(owner, t) ==
    [kind |-> "lease", ownerId |-> owner, acquiredAt |-> t,
     expiresAt |-> t + LOCK_LEASE_MS]

lockIsLive_AnyLease(lock, t) == lock.kind = "lease"

lockIsLive_BeyondNextTick(lock, t) == lock.kind = "lease" /\ lock.expiresAt > t + 1

\* The test of acquireLock on the content it read, with the `now` it took
\* before reading.
lockIsLive(lock, t) == lock.kind = "lease" /\ lock.expiresAt > t

\* fs.writeFile of the lease fails when the directory is missing or unwritable.
lockWritable(dirExists, f) == dirExists /\ f # "dir"

releaseLock_Skipped(locks, k, f) == locks

\* releaseLock: unlink, errors ignored.
releaseLock(locks, k, f) ==
    IF f = "dir" THEN locks ELSE [locks EXCEPT ![k] = NoLock]


\* ------------------------------------------------------------ single flight

NoTask ==
    [pc |-> "none", key |-> "none", lockNow |-> 0, payload |-> NoPayload, failed |-> FALSE,
     granted |-> FALSE, built |-> FALSE, via |-> "none", outcome |-> "none"]

\* The refresh task up to its first await: acquireLock took `now` and issued
\* the read of the lease file.
StartedTask(k, t, via) ==
    [NoTask EXCEPT !.pc = "lockRead", !.key = k, !.lockNow = t, !.via = via]

singleFlight_NoDedup(infl, tasks, k, r, started) ==
    [inflight |-> [infl EXCEPT ![k] = r],
     task |-> [tasks EXCEPT ![r] = started],
     joined |-> r]

\* singleFlight(cacheKey, fn) called by r, where `started` is fn's task once
\* fn() has run to its first await: the maps afterwards and the id of the task
\* whose promise is returned.
singleFlight(infl, tasks, k, r, started) ==
    IF infl[k] # 0
    THEN [inflight |-> infl, task |-> tasks, joined |-> infl[k]]
    ELSE [inflight |-> [infl EXCEPT ![k] = r],
          task |-> [tasks EXCEPT ![r] = started],
          joined |-> r]

singleFlightFinally_OnSuccessOnly(infl, k, outcome) ==
    IF outcome = "resolved" THEN [infl EXCEPT ![k] = 0] ELSE infl

\* .finally(() => inflight.delete(cacheKey)), run when fn's promise settles.
singleFlightFinally(infl, k, outcome) == [infl EXCEPT ![k] = 0]

isInflight(k) == inflight[k] # 0

\* ------------------------------------------------------------ handlers

Failures == {"auth", "credentials", "http401", "http429", "other"}
Outcomes == {"ok"} \cup Failures

IdleReq ==
    [pc |-> "idle", async |-> FALSE, force |-> FALSE, raw |-> NoFile,
     payload |-> NoPayload, saw |-> "none", joined |-> 0, during |-> 0,
     invoked |-> FALSE, concurrent |-> FALSE, built |-> FALSE]

NoResp == [status |-> 0, body |-> NoPayload, xcache |-> "none", running |-> 0]

Response(status, body, xcache, running) ==
    [status |-> status, body |-> body, xcache |-> xcache, running |-> running]

\* Status of the catch block of GET (playlists) / POST (artists).
errorStatus(r, failure) ==
    IF failure = "auth" THEN 401
    ELSE IF failure = "credentials" THEN 400
    ELSE IF r = "playlists"
    THEN (IF failure = "http401" THEN 401 ELSE 500)
    ELSE (IF failure = "http429" THEN 429 ELSE 500)

\* errorCode of the catch block of refreshPlaylistsCache; refreshArtistsCache
\* stores none.
refreshErrorCode(r, failure) ==
    IF r = "artists" THEN "none"
    ELSE IF failure = "auth" THEN "auth_required"
    ELSE IF failure = "credentials" THEN "credentials_missing"
    ELSE IF failure = "http429" THEN "rate_limit"
    ELSE "error"

Disk == [cacheDir |-> cacheDir, file |-> file, index |-> index, counters |-> counters]

SetDisk(d) ==
    /\ cacheDir' = d.cacheDir
    /\ file' = d.file
    /\ index' = d.index
    /\ counters' = d.counters
    /\ UNCHANGED tmpFile

\* The tasks of key k that have started and not settled, and their number.
RunningTasks(tasks, k) ==
    {q \in Requests : tasks[q].key = k /\ tasks[q].pc \notin {"none", "done"}}

Running(tasks, k) == Cardinality(RunningTasks(tasks, k))

\* What a caller r of singleFlight on key k notes down: the promise it got, a
\* task that was running for k when it called (0: none), and whether its own
\* fn was invoked.
Called(me, tasks, k, r, sf) ==
    [me EXCEPT !.joined = sf.joined,
               !.during = IF RunningTasks(tasks, k) = {} THEN 0
                          ELSE CHOOSE q \in RunningTasks(tasks, k) : TRUE,
               !.invoked = sf.task[r] # tasks[r]]

\* The handler from its entry to the first await: getMemoryCache, then either
\* the memory hit or the call of readDiskCache.  Request ids are given out in
\* order of arrival.
Start(r, asyncMode, forceRefresh) ==
    /\ req[r].pc = "idle"
    /\ \A q \in Requests : q < r => req[q].pc # "idle"
    /\ forceRefresh => route = "artists"
    /\ LET m == getMemoryCache(memoryCache, counters, route, now)
           started == [req[r] EXCEPT !.async = asyncMode, !.force = forceRefresh,
                          !.concurrent = \A q \in Requests : req[q].pc # "done"]
       IN /\ memoryCache' = m.mem
          /\ counters' = m.counters
          /\ IF m.found /\ ~forceRefresh
             THEN /\ req' = [req EXCEPT ![r] = [started EXCEPT !.pc = "done", !.saw = "memory"]]
                  /\ resp' = [resp EXCEPT ![r] = Response(200, m.payload, "hit", Running(task, route))]
             ELSE /\ req' = [req EXCEPT ![r] = [started EXCEPT !.pc = "diskRead"]]
                  /\ UNCHANGED resp
    /\ UNCHANGED <<now, debugToken, route, inflight, cacheDir, diskFault, file, tmpFile, index, lockFile,
                   task, builds, upstream, caller, probe>>

\* fs.readFile of readDiskCache is served: the handler now holds the content
\* the file had at this moment.
DiskRead(r) ==
    /\ req[r].pc = "diskRead"
    /\ req' = [req EXCEPT ![r].pc = "diskGot",
                          ![r].raw = IF cacheDir THEN file[route] ELSE NoFile]
    /\ UNCHANGED <<now, debugToken, route, memoryCache, inflight, counters, cacheDir, diskFault,
                   file, tmpFile, index, lockFile, resp, task, builds, upstream, caller, probe>>

\* The handler resumes after readDiskCache: the rest of readDiskCache, the
\* freshness test and the branch taken, up to the response or the next await.
DiskGot(r) ==
    /\ req[r].pc = "diskGot"
    /\ LET me == req[r]
           env == parseDiskCache(me.raw, now)
           c1 == IF env.kind = "envelope" THEN incCounter(counters, "read") ELSE counters
           usable == env.kind = "envelope" /\ ~me.force
           state == IF usable
                    THEN getCacheState(now - env.updatedAt, TTL(route), SWR(route))
                    ELSE "absent"
           staleBranch == state = "stale" /\ (route = "artists" \/ ~me.async)
           asyncBranch == ~staleBranch /\ state # "ok" /\ me.async /\ ~me.force
           sf == singleFlight(inflight, task, route, r,
                     StartedTask(route, now, IF staleBranch THEN "stale" ELSE "miss"))
       IN /\ probe' = IF usable
                      THEN [age |-> now - env.updatedAt, ttl |-> TTL(route),
                            swr |-> SWR(route), state |-> state]
                      ELSE probe
          /\ IF state = "ok"
             THEN /\ counters' = incCounter(c1, "hit")
                  /\ memoryCache' = setMemoryCache(memoryCache, route, env.payload,
                                        TTL(route), env.updatedAt, "ok", now)
                  /\ req' = [req EXCEPT ![r].pc = "done", ![r].saw = state]
                  /\ resp' = [resp EXCEPT ![r] =
                                 Response(200, env.payload, "hit", Running(task, route))]
                  /\ UNCHANGED <<inflight, task, builds>>
             ELSE IF staleBranch \/ asyncBranch
             THEN /\ counters' = incCounter(c1, IF staleBranch THEN "stale" ELSE "miss")
                  /\ inflight' = sf.inflight
                  /\ task' = sf.task
                  /\ req' = [req EXCEPT ![r] =
                                [Called(me, task, route, r, sf) EXCEPT
                                    !.pc = "done", !.saw = state]]
                  /\ resp' = [resp EXCEPT ![r] =
                                 Response(200,
                                          IF staleBranch THEN WithStale(env.payload)
                                          ELSE Placeholder(now),
                                          IF staleBranch THEN "stale" ELSE "none",
                                          Running(sf.task, route))]
                  /\ UNCHANGED <<memoryCache, builds>>
             ELSE /\ counters' = c1
                  /\ builds' = [builds EXCEPT ![route] = @ + 1]
                  /\ req' = [req EXCEPT ![r].pc = "building", ![r].saw = state]
                  /\ UNCHANGED <<memoryCache, inflight, task, resp>>
    /\ UNCHANGED <<now, debugToken, route, cacheDir, diskFault, file, tmpFile, index, lockFile, upstream, caller>>

\* The envelope the handlers and buildArtistsPayload pass to writeDiskCache.
OkEnvelope(p) == Envelope(p.updatedAt, EmptyChecksum, WithOk(p))

\* The envelope refreshPlaylistsCache and the catch blocks pass.
RawEnvelope(p) == Envelope(p.updatedAt, EmptyChecksum, p)

\* The synchronous rebuild of the handler ends (the upstream fetches are over).
\* playlists: buildPlaylistsPayload returns or throws.  artists: the fetches of
\* buildArtistsPayload are over; on success it stores the payload in memory and
\* calls writeDiskCache itself.
ReqBuildDone(r, outcome) ==
    /\ req[r].pc = "building"
    /\ outcome \in upstream
    /\ IF outcome # "ok"
       THEN /\ req' = [req EXCEPT ![r].pc = "done"]
            /\ resp' = [resp EXCEPT ![r] =
                           Response(errorStatus(route, outcome), NoPayload, "none",
                                    Running(task, route))]
            /\ UNCHANGED memoryCache
       ELSE LET p == DataPayload(route, now)
            IN /\ memoryCache' = setMemoryCache(memoryCache, route, p, TTL(route),
                                                p.updatedAt, "ok", now)
               /\ req' = [req EXCEPT ![r].payload = p, ![r].built = TRUE,
                             ![r].pc = IF route = "artists" THEN "buildWriting"
                                       ELSE "writing"]
               /\ UNCHANGED resp
    /\ UNCHANGED <<now, debugToken, route, inflight, counters, cacheDir, diskFault, file, tmpFile, index,
                   lockFile, task, builds, upstream, caller, probe>>

\* artists: the writeDiskCache inside buildArtistsPayload ends; the handler then
\* stores the payload in memory again and calls writeDiskCache again.
ReqBuildWriteDone(r) ==
    /\ req[r].pc = "buildWriting"
    /\ LET w == writeDiskCache(Disk, route, OkEnvelope(req[r].payload), diskFault, now)
       IN /\ SetDisk(w.d)
          /\ IF w.threw
             THEN /\ req' = [req EXCEPT ![r].pc = "done"]
                  /\ resp' = [resp EXCEPT ![r] =
                                 Response(errorStatus(route, "other"), NoPayload, "none",
                                          Running(task, route))]
                  /\ UNCHANGED memoryCache
             ELSE /\ req' = [req EXCEPT ![r].pc = "writing"]
                  /\ memoryCache' = setMemoryCache(memoryCache, route, req[r].payload,
                                        TTL(route), req[r].payload.updatedAt, "ok", now)
                  /\ UNCHANGED resp
    /\ UNCHANGED <<now, debugToken, route, inflight, diskFault, lockFile, task, builds, upstream, caller, probe>>

\* The handler's own writeDiskCache ends: the response built before it is
\* returned, or the catch block answers.
ReqWriteDone(r) ==
    /\ req[r].pc = "writing"
    /\ LET w == writeDiskCache(Disk, route, OkEnvelope(req[r].payload), diskFault, now)
       IN /\ SetDisk(w.d)
          /\ req' = [req EXCEPT ![r].pc = "done"]
          /\ resp' = [resp EXCEPT ![r] =
                IF w.threw
                THEN Response(errorStatus(route, "other"), NoPayload, "none", Running(task, route))
                ELSE Response(200,
                              IF route = "artists" THEN WithOk(req[r].payload)
                              ELSE req[r].payload,
                              "none", Running(task, route))]
    /\ UNCHANGED <<now, debugToken, route, memoryCache, inflight, diskFault, lockFile, task, builds,
                   upstream, caller, probe>>

\* ------------------------------------------------------------ refresh task
\* async () => { acquireLock; if (!granted) return;
\*               try { refresh...Cache } finally { releaseLock } }

\* fn's promise settles and the finally callback of singleFlight runs.
Settle(tasks, r, outcome) == [tasks EXCEPT ![r].pc = "done", ![r].outcome = outcome]

\* acquireLock: the read of the lease file is served and tested against the
\* `now` taken before it.  A live lease ends the task.
TaskLockRead(r) ==
    /\ task[r].pc = "lockRead"
    /\ LET lock == IF cacheDir THEN lockFile[route] ELSE NoLock
       IN IF lockIsLive(lock, task[r].lockNow)
          THEN /\ task' = Settle(task, r, "resolved")
               /\ inflight' = singleFlightFinally(inflight, route, "resolved")
          ELSE /\ task' = [task EXCEPT ![r].pc = "lockWrite"]
               /\ UNCHANGED inflight
    /\ UNCHANGED <<now, debugToken, route, memoryCache, counters, cacheDir, diskFault, file, tmpFile, index,
                   lockFile, req, resp, builds, upstream, caller, probe>>

\* acquireLock: the write of the lease is served.  A failed write rejects the
\* task (the call is outside the try); otherwise the rebuild starts.
TaskLockWrite(r) ==
    /\ task[r].pc = "lockWrite"
    /\ IF lockWritable(cacheDir, diskFault)
       THEN /\ lockFile' = [lockFile EXCEPT ![route] = Lease(r, task[r].lockNow)]
            /\ task' = [task EXCEPT ![r].pc = "building", ![r].granted = TRUE,
                                    ![r].built = TRUE]
            /\ builds' = [builds EXCEPT ![route] = @ + 1]
            /\ UNCHANGED inflight
       ELSE /\ task' = Settle(task, r, "rejected")
            /\ inflight' = singleFlightFinally(inflight, route, "rejected")
            /\ UNCHANGED <<lockFile, builds>>
    /\ UNCHANGED <<now, debugToken, route, memoryCache, counters, cacheDir, diskFault, file, tmpFile, index,
                   req, resp, upstream, caller, probe>>

\* The catch block of refreshPlaylistsCache / refreshArtistsCache up to its
\* writeDiskCache: the empty error payload goes to memory.
CatchRefresh(r, failure) ==
    LET p == ErrorPayload(now, refreshErrorCode(route, failure))
    IN /\ memoryCache' = setMemoryCache(memoryCache, route, p, TTL(route),
                                        p.updatedAt, "error", now)
       /\ task' = [task EXCEPT ![r].pc = "errWriting", ![r].payload = p]

\* The rebuild of the refresh ends.  On success the payload goes to memory and
\* writeDiskCache is called (by refreshPlaylistsCache, or inside
\* buildArtistsPayload); on failure the catch block runs.
TaskBuildDone(r, outcome) ==
    /\ task[r].pc = "building"
    /\ outcome \in upstream
    /\ IF outcome = "ok"
       THEN LET p == DataPayload(route, now)
            IN /\ memoryCache' = setMemoryCache(memoryCache, route, p, TTL(route),
                                                p.updatedAt, "ok", now)
               /\ task' = [task EXCEPT ![r].pc = "writing", ![r].payload = p]
       ELSE CatchRefresh(r, outcome)
    /\ UNCHANGED <<now, debugToken, route, inflight, counters, cacheDir, diskFault, file, tmpFile, index,
                   lockFile, req, resp, builds, upstream, caller, probe>>

\* The writeDiskCache of the successful rebuild ends: the refresh counter, then
\* the finally block calls releaseLock; a failed write runs the catch block.
TaskWriteDone(r) ==
    /\ task[r].pc = "writing"
    /\ LET env == IF route = "artists" THEN OkEnvelope(task[r].payload)
                  ELSE RawEnvelope(task[r].payload)
           w == writeDiskCache(Disk, route, env, diskFault, now)
       IN IF w.threw
          THEN /\ SetDisk(w.d)
               /\ CatchRefresh(r, "other")
          ELSE /\ SetDisk([w.d EXCEPT !.counters = incCounter(@, "refresh")])
               /\ task' = [task EXCEPT ![r].pc = "releasing"]
               /\ UNCHANGED memoryCache
    /\ UNCHANGED <<now, debugToken, route, inflight, diskFault, lockFile, req, resp, builds, upstream, caller,
                   probe>>

\* The writeDiskCache of the catch block ends: the error counter, or the
\* exception leaves the refresh function; the finally block calls releaseLock.
TaskErrWriteDone(r) ==
    /\ task[r].pc = "errWriting"
    /\ LET w == writeDiskCache(Disk, route, RawEnvelope(task[r].payload), diskFault, now)
       IN IF w.threw
          THEN /\ SetDisk(w.d)
               /\ task' = [task EXCEPT ![r].pc = "releasing", ![r].failed = TRUE]
          ELSE /\ SetDisk([w.d EXCEPT !.counters = incCounter(@, "error")])
               /\ task' = [task EXCEPT ![r].pc = "releasing"]
    /\ UNCHANGED <<now, debugToken, route, memoryCache, inflight, diskFault, lockFile, req, resp,
                   builds, upstream, caller, probe>>

\* releaseLock ends and the task settles.
TaskRelease(r) ==
    /\ task[r].pc = "releasing"
    /\ lockFile' = releaseLock(lockFile, route, diskFault)
    /\ LET outcome == IF task[r].failed THEN "rejected" ELSE "resolved"
       IN /\ task' = Settle(task, r, outcome)
          /\ inflight' = singleFlightFinally(inflight, route, outcome)
    /\ UNCHANGED <<now, debugToken, route, memoryCache, counters, cacheDir, diskFault, file, tmpFile, index,
                   req, resp, builds, upstream, caller, probe>>

\* ------------------------------------------------------------ clock

Tick ==
    /\ now < EndTime
    /\ now' = now + 1
    /\ UNCHANGED <<route, debugToken, memoryCache, inflight, counters, cacheDir, diskFault, file, tmpFile,
                   index, lockFile, req, resp, task, builds, upstream, caller, probe>>

\* ------------------------------------------------------------ specification

\* A cache file as an earlier run of the handler left it at time t.
StoredAt(r, t) ==
    LET p == WithOk(DataPayload(r, t))
    IN Envelope(t, computeChecksum(p), p)

\* The same file with a payload that no longer matches its checksum.
CorruptAt(r, t) ==
    [StoredAt(r, t) EXCEPT !.payload = [@ EXCEPT !.kind = "tampered"]]

InitFiles(r) ==
    {NoFile, CorruptAt(r, StartTime)}
    \cup {StoredAt(r, StartTime - a) : a \in {0, TTL(r), TTL(r) + SWR(r)}}

\* A lease held by another process (owner 0), live or left behind expired.
InitLocks == {NoLock, Lease(0, StartTime), Lease(0, StartTime - LOCK_LEASE_MS)}

IdleProcess ==
    /\ debugToken = ""
    /\ memoryCache = <<>>
    /\ tmpFile = [k \in Keys |-> NoFile]
    /\ inflight = [k \in Keys |-> 0]
    /\ counters = ZeroCounters
    /\ req = [r \in Requests |-> IdleReq]
    /\ resp = [r \in Requests |-> NoResp]
    /\ task = [r \in Requests |-> NoTask]
    /\ builds = [k \in Keys |-> 0]

NoCallers == [c \in Callers |-> [pc |-> "idle", lockNow |-> 0, lease |-> NoLock]]
NoProbe == [age |-> 0, ttl |-> 0, swr |-> 0, state |-> "none"]

Init ==
    /\ now = StartTime
    /\ route \in Routes
    /\ IdleProcess
    /\ diskFault \in {"none", "dir", "index"}
    /\ cacheDir \in BOOLEAN
    /\ \E f \in InitFiles(route), l \in InitLocks :
          /\ ~cacheDir => f = NoFile /\ l = NoLock
          /\ file = [k \in Keys |-> IF k = route THEN f ELSE NoFile]
          /\ lockFile = [k \in Keys |-> IF k = route THEN l ELSE NoLock]
          /\ index = IF f = NoFile THEN <<>>
                     ELSE <<[key |-> route, size |-> f.payload.size,
                             updatedAt |-> f.updatedAt, lastAccessAt |-> f.updatedAt]>>
    /\ upstream = {"ok", "http429"}
    /\ caller = NoCallers
    /\ probe = NoProbe

Next ==
    \/ \E r \in Requests, a \in BOOLEAN, f \in BOOLEAN : Start(r, a, f)
    \/ \E r \in Requests : DiskRead(r)
    \/ \E r \in Requests : DiskGot(r)
    \/ \E r \in Requests, o \in Outcomes : ReqBuildDone(r, o)
    \/ \E r \in Requests : ReqBuildWriteDone(r)
    \/ \E r \in Requests : ReqWriteDone(r)
    \/ \E r \in Requests : TaskLockRead(r)
    \/ \E r \in Requests : TaskLockWrite(r)
    \/ \E r \in Requests, o \in Outcomes : TaskBuildDone(r, o)
    \/ \E r \in Requests : TaskWriteDone(r)
    \/ \E r \in Requests : TaskErrWriteDone(r)
    \/ \E r \in Requests : TaskRelease(r)
    \/ Tick

Spec == Init /\ [][Next]_vars

\* ------------------------------------------------------------ lock manager alone
\* Clients of acquireLock / releaseLock on one key, in one or several
\* processes: the lease file is all they share.

\* acquireLock up to its first await: `now` is taken and the read is issued.
LockCall(c) ==
    /\ caller[c].pc = "idle"
    /\ caller' = [caller EXCEPT ![c].pc = "read", ![c].lockNow = now]
    /\ UNCHANGED <<now, debugToken, route, memoryCache, inflight, counters, cacheDir, diskFault,
                   file, tmpFile, index, lockFile, req, resp, task, builds, upstream, probe>>

\* The read of the lease file is served: a live lease returns false.
LockRead(c) ==
    /\ caller[c].pc = "read"
    /\ caller' = [caller EXCEPT ![c].pc =
                     IF lockIsLive(lockFile[route], caller[c].lockNow)
                     THEN "idle" ELSE "write"]
    /\ UNCHANGED <<now, debugToken, route, memoryCache, inflight, counters, cacheDir, diskFault,
                   file, tmpFile, index, lockFile, req, resp, task, builds, upstream, probe>>

\* The write of the lease is served: acquireLock returns true, or the
\* rejection of fs.writeFile leaves acquireLock as an exception.
LockWrite(c) ==
    /\ caller[c].pc = "write"
    /\ IF lockWritable(cacheDir, diskFault)
       THEN /\ lockFile' = [lockFile EXCEPT ![route] = Lease(c, caller[c].lockNow)]
            /\ caller' = [caller EXCEPT ![c].pc = "held",
                                        ![c].lease = Lease(c, caller[c].lockNow)]
       ELSE /\ caller' = [caller EXCEPT ![c].pc = "threw"]
            /\ UNCHANGED lockFile
    /\ UNCHANGED <<now, debugToken, route, memoryCache, inflight, counters, cacheDir, diskFault,
                   file, tmpFile, index, req, resp, task, builds, upstream, probe>>

\* The holder calls releaseLock.
LockRelease(c) ==
    /\ caller[c].pc = "held"
    /\ lockFile' = releaseLock(lockFile, route, diskFault)
    /\ caller' = [caller EXCEPT ![c].pc = "idle", ![c].lease = NoLock]
    /\ UNCHANGED <<now, debugToken, route, memoryCache, inflight, counters, cacheDir, diskFault,
                   file, tmpFile, index, req, resp, task, builds, upstream, probe>>

InitLock ==
    /\ now = StartTime
    /\ route \in Routes
    /\ IdleProcess
    /\ diskFault = "none"
    /\ cacheDir \in BOOLEAN
    /\ file = [k \in Keys |-> NoFile]
    /\ index = <<>>
    /\ \E l \in InitLocks :
          /\ ~cacheDir => l = NoLock
          /\ lockFile = [k \in Keys |-> IF k = route THEN l ELSE NoLock]
    /\ upstream = {"ok"}
    /\ caller = NoCallers
    /\ probe = NoProbe

\* The caller takes note of the exception and may call again.
LockThrown(c) ==
    /\ caller[c].pc = "threw"
    /\ caller' = [caller EXCEPT ![c].pc = "idle"]
    /\ UNCHANGED <<now, debugToken, route, memoryCache, inflight, counters, cacheDir, diskFault,
                   file, tmpFile, index, lockFile, req, resp, task, builds, upstream, probe>>

NextLock ==
    \/ \E c \in Callers : LockCall(c)
    \/ \E c \in Callers : LockRead(c)
    \/ \E c \in Callers : LockWrite(c)
    \/ \E c \in Callers : LockRelease(c)
    \/ \E c \in Callers : LockThrown(c)
    \/ Tick

SpecLock == InitLock /\ [][NextLock]_vars

\* ------------------------------------------------------------ freshness alone

\* getCacheState is applied to an age under a configuration of the windows.
Probe(a, ttl, swr) ==
    /\ probe' = [age |-> a, ttl |-> ttl, swr |-> swr,
                 state |-> getCacheState(a, ttl, swr)]
    /\ UNCHANGED <<now, debugToken, route, memoryCache, inflight, counters, cacheDir, diskFault,
                   file, tmpFile, index, lockFile, req, resp, task, builds, upstream, caller>>

InitIdle ==
    /\ now = StartTime
    /\ route \in Routes
    /\ IdleProcess
    /\ diskFault = "none"
    /\ cacheDir = FALSE
    /\ file = [k \in Keys |-> NoFile]
    /\ index = <<>>
    /\ lockFile = [k \in Keys |-> NoLock]
    /\ upstream = {"ok"}
    /\ caller = NoCallers
    /\ probe = NoProbe

NextFresh ==
    \E a \in 0..MaxAge, ttl \in 0..MaxWindow, swr \in 0..MaxWindow : Probe(a, ttl, swr)

SpecFresh == InitIdle /\ [][NextFresh]_vars

\* ------------------------------------------------------------ single flight alone
\* Callers of singleFlight(key, fn) for an arbitrary fn that settles later,
\* by success or by failure.

\* r calls singleFlight(k, fn) and keeps the promise it gets.
FlightCall(r, k) ==
    /\ req[r].pc = "idle"
    /\ task[r].pc \in {"none", "done"}
    /\ \A q \in Requests : req[q].joined # r
    /\ LET sf == singleFlight(inflight, task, k, r,
                              [NoTask EXCEPT !.pc = "running", !.key = k])
       IN /\ inflight' = sf.inflight
          /\ task' = sf.task
          /\ req' = [req EXCEPT ![r] = [Called(req[r], task, k, r, sf) EXCEPT !.pc = "called"]]
    /\ UNCHANGED <<now, debugToken, route, memoryCache, counters, cacheDir, diskFault, file, tmpFile, index,
                   lockFile, resp, builds, upstream, caller, probe>>

\* fn's promise settles and the finally callback runs.
FlightSettle(r, outcome) ==
    /\ task[r].pc = "running"
    /\ task' = Settle(task, r, outcome)
    /\ inflight' = singleFlightFinally(inflight, task[r].key, outcome)
    /\ UNCHANGED <<now, debugToken, route, memoryCache, counters, cacheDir, diskFault, file, tmpFile, index,
                   lockFile, req, resp, builds, upstream, caller, probe>>

\* r has seen its promise settle and drops it.
FlightReturn(r) ==
    /\ req[r].pc = "called"
    /\ task[req[r].joined].pc = "done"
    /\ req' = [req EXCEPT ![r] = IdleReq]
    /\ UNCHANGED <<now, debugToken, route, memoryCache, inflight, counters, cacheDir, diskFault,
                   file, tmpFile, index, lockFile, resp, task, builds, upstream, caller, probe>>

NextFlight ==
    \/ \E r \in Requests, k \in Keys : FlightCall(r, k)
    \/ \E r \in Requests, o \in {"resolved", "rejected"} : FlightSettle(r, o)
    \/ \E r \in Requests : FlightReturn(r)

SpecFlight == InitIdle /\ [][NextFlight]_vars

\* ------------------------------------------------------------ refresh tasks alone
\* The background refresh as the handlers start it,
\*   void singleFlight(cacheKey, async () => { acquireLock ... releaseLock }),
\* with every class of rebuild failure.

\* A handler starts the refresh of the key.
TaskStart(r) ==
    /\ task[r].pc = "none"
    /\ \A q \in Requests : q < r => task[q].pc # "none"
    /\ LET sf == singleFlight(inflight, task, route, r, StartedTask(route, now, "stale"))
       IN /\ inflight' = sf.inflight
          /\ task' = sf.task
    /\ UNCHANGED <<now, debugToken, route, memoryCache, counters, cacheDir, diskFault, file, tmpFile, index,
                   lockFile, req, resp, builds, upstream, caller, probe>>

InitTask ==
    /\ now = StartTime
    /\ route \in Routes
    /\ IdleProcess
    /\ diskFault \in {"none", "dir", "index"}
    /\ cacheDir \in BOOLEAN
    /\ \E f \in InitFiles(route), l \in InitLocks :
          /\ ~cacheDir => f = NoFile /\ l = NoLock
          /\ file = [k \in Keys |-> IF k = route THEN f ELSE NoFile]
          /\ lockFile = [k \in Keys |-> IF k = route THEN l ELSE NoLock]
          /\ index = IF f = NoFile THEN <<>>
                     ELSE <<[key |-> route, size |-> f.payload.size,
                             updatedAt |-> f.updatedAt, lastAccessAt |-> f.updatedAt]>>
    /\ upstream = Outcomes
    /\ caller = NoCallers
    /\ probe = NoProbe

NextTask ==
    \/ \E r \in Requests : TaskStart(r)
    \/ \E r \in Requests : TaskLockRead(r)
    \/ \E r \in Requests : TaskLockWrite(r)
    \/ \E r \in Requests, o \in Outcomes : TaskBuildDone(r, o)
    \/ \E r \in Requests : TaskWriteDone(r)
    \/ \E r \in Requests : TaskErrWriteDone(r)
    \/ \E r \in Requests : TaskRelease(r)
    \/ Tick

SpecTask == InitTask /\ [][NextTask]_vars

\* ------------------------------------------------------------ handlers, all failures
\* The two handlers and their refresh tasks with every class of rebuild
\* failure.

SpecServe == InitTask /\ [][Next]_vars

\* ------------------------------------------------------------ handlers, aged entries
\* The two handlers on a healthy disk that holds an entry of any age up to
\* expiry.

InitAged ==
    /\ now = StartTime
    /\ route \in Routes
    /\ IdleProcess
    /\ diskFault = "none"
    /\ cacheDir = TRUE
    /\ \E a \in 0..(TTL(route) + SWR(route)) :
          /\ file = [k \in Keys |-> IF k = route THEN StoredAt(route, StartTime - a)
                                    ELSE NoFile]
          /\ index = <<[key |-> route, size |-> StoredAt(route, StartTime - a).payload.size,
                        updatedAt |-> StartTime - a, lastAccessAt |-> StartTime - a]>>
    /\ lockFile = [k \in Keys |-> NoLock]
    /\ upstream = {"ok", "http429"}
    /\ caller = NoCallers
    /\ probe = NoProbe

SpecAged == InitAged /\ [][Next]_vars

\* ------------------------------------------------------------ handlers, legacy files
\* The two handlers, over any length of time, on a cache directory in which an
\* earlier version of the program left the key's file without envelope.  The
\* process is restarted now and then: what lives in the module (the memory
\* tier, the inflight map, the counters) starts afresh, the disk stays.  The
\* program only ever compares a stored timestamp with Date.now(), so the new
\* run's clock is read from StartTime again and every timestamp on disk is
\* moved back by the time that has passed; a timestamp further back than any
\* window is kept at 0.

Back(t, d) == IF t - d < 0 THEN 0 ELSE t - d

BackPayload(p, d) == [p EXCEPT !.updatedAt = Back(@, d)]

BackFile(f, d) ==
    [f EXCEPT !.updatedAt = Back(@, d),
              !.payload = BackPayload(@, d),
              !.checksum = IF @ = EmptyChecksum THEN @ ELSE <<BackPayload(@[1], d)>>]

BackIndex(idx, d) ==
    [i \in 1..Len(idx) |->
        [idx[i] EXCEPT !.updatedAt = Back(@, d), !.lastAccessAt = Back(@, d)]]

BackLock(l, d) ==
    [l EXCEPT !.acquiredAt = Back(@, d), !.expiresAt = Back(@, d)]

\* The process, with no request or refresh under way, is stopped and started
\* again d units of time later.
Restart(d) ==
    /\ \A r \in Requests : req[r].pc \in {"idle", "done"} /\ task[r].pc \in {"none", "done"}
    /\ \E r \in Requests : req[r].pc = "done"
    /\ LET passed == (now - StartTime) + d
       IN /\ file' = [k \in DOMAIN file |-> BackFile(file[k], passed)]
          /\ index' = BackIndex(index, passed)
          /\ lockFile' = [k \in DOMAIN lockFile |-> BackLock(lockFile[k], passed)]
    /\ now' = StartTime
    /\ memoryCache' = <<>>
    /\ inflight' = [k \in Keys |-> 0]
    /\ counters' = ZeroCounters
    /\ req' = [r \in Requests |-> IdleReq]
    /\ resp' = [r \in Requests |-> NoResp]
    /\ task' = [r \in Requests |-> NoTask]
    /\ builds' = [k \in Keys |-> 0]
    /\ probe' = NoProbe
    /\ UNCHANGED <<debugToken, route, cacheDir, diskFault, tmpFile, upstream, caller>>

InitMigrate ==
    /\ now = StartTime
    /\ route \in Routes
    /\ IdleProcess
    /\ diskFault = "none"
    /\ cacheDir = TRUE
    /\ file = [k \in Keys |-> IF k = route THEN LegacyFile(DataPayload(route, 0))
                              ELSE NoFile]
    /\ index = <<>>
    /\ lockFile = [k \in Keys |-> NoLock]
    /\ upstream = {"ok", "http429"}
    /\ caller = NoCallers
    /\ probe = NoProbe

NextMigrate ==
    \/ Next
    \/ \E d \in 1..MaxAge : Restart(d)

\* What the run time guarantees: a continuation that is ready runs, unforced
\* requests keep arriving, and the process is restarted again and again.
FairMigrate ==
    /\ WF_vars(\E r \in Requests, a \in BOOLEAN : Start(r, a, FALSE))
    /\ WF_vars(\E r \in Requests : DiskRead(r) \/ DiskGot(r))
    /\ WF_vars(\E r \in Requests, o \in Outcomes : ReqBuildDone(r, o) \/ TaskBuildDone(r, o))
    /\ WF_vars(\E r \in Requests : ReqBuildWriteDone(r) \/ ReqWriteDone(r))
    /\ WF_vars(\E r \in Requests : TaskLockRead(r) \/ TaskLockWrite(r))
    /\ WF_vars(\E r \in Requests : TaskWriteDone(r) \/ TaskErrWriteDone(r) \/ TaskRelease(r))
    /\ WF_vars(\E d \in 1..MaxAge : Restart(d))

SpecMigrate == InitMigrate /\ [][NextMigrate]_vars /\ FairMigrate

\* ------------------------------------------------------------ disk tier alone
\* One client calls writeDiskCache and readDiskCache in turn, for envelopes
\* of any size and with any checksum field; files are damaged from outside.

\* A payload of s bytes built at time t.
StorePayload(s, t) ==
    [kind |-> "data", updatedAt |-> t, state |-> "ok", errorCode |-> "none", size |-> s]

\* The checksum field of the envelope a caller passes: "" as the handlers do,
\* the digest of the payload, or the digest of another payload.
CallerChecksum(cs, p) ==
    IF cs = "empty" THEN EmptyChecksum
    ELSE IF cs = "own" THEN computeChecksum(p)
    ELSE computeChecksum(NoPayload)

NoObservation ==
    [op |-> "none", key |-> "none", written |-> [k \in StoreKeys |-> NoPayload],
     raw |-> NoFile, threw |-> FALSE, env |-> NoFile]

\* writeDiskCache(k, envelope) up to the end of writeIndex(index).
StoreWrite(k, s, cs) ==
    /\ caller.pc = "idle"
    /\ counters.write < MaxWrites
    /\ LET p == StorePayload(s, now)
           envelope == Envelope(now, CallerChecksum(cs, p), p)
       IN /\ SetDisk(writeDiskCacheIndexed(writeDiskCacheRenamed(Disk, k, envelope), k, now))
          /\ probe' = [probe EXCEPT !.op = "write", !.key = k, !.written[k] = p]
    /\ caller' = [pc |-> "evict", key |-> k]
    /\ UNCHANGED <<now, debugToken, route, memoryCache, inflight, diskFault, lockFile, req, resp,
                   task, builds, upstream>>

\* evictIfNeeded(index) ends, and with it writeDiskCache.
StoreEvict ==
    /\ caller.pc = "evict"
    /\ SetDisk(evictIfNeeded(Disk))
    /\ caller' = [pc |-> "idle", key |-> "none"]
    /\ UNCHANGED <<now, debugToken, route, memoryCache, inflight, diskFault, lockFile, req, resp,
                   task, builds, upstream, probe>>

\* readDiskCache(k).
StoreRead(k) ==
    /\ caller.pc = "idle"
    /\ counters.read < MaxReads
    /\ LET raw == IF cacheDir THEN file[k] ELSE NoFile
           got == readDiskCache(raw, now)
       IN /\ counters' = IF got.env.kind = "envelope" THEN incCounter(counters, "read")
                         ELSE counters
          /\ probe' = [probe EXCEPT !.op = "read", !.key = k, !.raw = raw,
                                    !.threw = got.threw, !.env = got.env]
    /\ UNCHANGED <<now, debugToken, route, memoryCache, inflight, cacheDir, diskFault, file, tmpFile,
                   index, lockFile, req, resp, task, builds, upstream, caller>>

\* The file of k is damaged from outside: a byte of the stored payload is
\* changed, the file is cut short, or it can no longer be read.
StoreDamage(k, how) ==
    /\ caller.pc = "idle"
    /\ file[k].kind = "envelope"
    /\ file[k].payload.kind = "data"
    /\ file' = [file EXCEPT ![k] =
                   IF how = "tampered" THEN [@ EXCEPT !.payload.kind = "tampered"]
                   ELSE [NoFile EXCEPT !.kind = how]]
    /\ UNCHANGED <<now, debugToken, route, memoryCache, inflight, counters, cacheDir, diskFault,
                   tmpFile, index, lockFile, req, resp, task, builds, upstream, caller,
                   probe>>

InitStore ==
    /\ now = StartTime
    /\ route \in Routes
    /\ IdleProcess
    /\ diskFault = "none"
    /\ cacheDir = FALSE
    /\ file = [k \in StoreKeys |-> NoFile]
    /\ index = <<>>
    /\ lockFile = [k \in Keys |-> NoLock]
    /\ upstream = {"ok"}
    /\ caller = [pc |-> "idle", key |-> "none"]
    /\ probe = NoObservation

NextDisk ==
    \/ \E k \in Keys, cs \in {"empty", "own", "other"} : StoreWrite(k, 1, cs)
    \/ StoreEvict
    \/ \E k \in Keys : StoreRead(k)
    \/ \E k \in Keys, how \in {"tampered", "garbage", "unreadable"} : StoreDamage(k, how)
    \/ Tick

SpecDisk == InitStore /\ [][NextDisk]_vars

\* The disk tier on files an earlier version of the program left behind.
InitLegacy ==
    /\ now = StartTime
    /\ route \in Routes
    /\ IdleProcess
    /\ diskFault = "none"
    /\ cacheDir = TRUE
    /\ \E old \in {LegacyFile(StorePayload(1, 0)), PrimitiveFile} :
          file = [k \in StoreKeys |-> IF k = route THEN old ELSE NoFile]
    /\ index = <<>>
    /\ lockFile = [k \in Keys |-> NoLock]
    /\ upstream = {"ok"}
    /\ caller = [pc |-> "idle", key |-> "none"]
    /\ probe = NoObservation

NextLegacy ==
    \/ \E k \in Keys : StoreWrite(k, 1, "empty")
    \/ StoreEvict
    \/ \E k \in Keys : StoreRead(k)
    \/ Tick

SpecLegacy == InitLegacy /\ [][NextLegacy]_vars

\* The eviction pass alone: writes of every size to three keys.
NextEvict ==
    \/ \E k \in StoreKeys, s \in 1..MaxSize : StoreWrite(k, s, "empty")
    \/ StoreEvict
    \/ Tick

SpecEvict == InitStore /\ [][NextEvict]_vars

\* ------------------------------------------------------------ concurrent writers
\* Several writeDiskCache calls for one key under way at once (two requests
\* that rebuild, a request and a background refresh, or two processes), step
\* by step.  The JSON text of a writer's envelope reaches the file in
\* NumChunks writes through the descriptor fs.writeFile opened; a descriptor
\* follows its file when the file is renamed.

\* JSON.stringify(payload) of writer w, as the chunks written in turn.
Serialized(w) == [i \in 1..NumChunks |-> [by |-> w, part |-> i]]

Bytes(chunks) == [kind |-> "bytes", chunks |-> chunks]

\* A range of the file no write has filled.
Hole == [by |-> 0, part |-> 0]

\* write(fd, chunk) at the position of chunk p.
WriteAt(chunks, p, c) ==
    [i \in 1..(IF p > Len(chunks) THEN p ELSE Len(chunks)) |->
        IF i = p THEN c ELSE IF i <= Len(chunks) THEN chunks[i] ELSE Hole]

IdleWriter == [pc |-> "idle", part |-> 0, fd |-> "none"]

\* mkdir, then fs.writeFile(tmp, json) opens <key>.json.tmp: created, or cut to
\* length 0 when it exists.
FileOpen(w) ==
    /\ caller[w].pc = "idle"
    /\ counters.write < MaxWrites
    /\ cacheDir' = TRUE
    /\ tmpFile' = [tmpFile EXCEPT ![route] = Bytes(<<>>)]
    /\ caller' = [caller EXCEPT ![w] = [pc |-> "writing", part |-> 1, fd |-> "tmp"]]
    /\ UNCHANGED <<now, debugToken, route, memoryCache, inflight, counters, diskFault, file, index,
                   lockFile, req, resp, task, builds, upstream, probe>>

\* fs.writeFile writes its next chunk, and closes after the last.
FileChunk(w) ==
    /\ caller[w].pc = "writing"
    /\ LET p == caller[w].part
           c == Serialized(w)[p]
       IN /\ tmpFile' = IF caller[w].fd = "tmp"
                        THEN [tmpFile EXCEPT ![route].chunks = WriteAt(@, p, c)]
                        ELSE tmpFile
          /\ file' = IF caller[w].fd = "target"
                     THEN [file EXCEPT ![route].chunks = WriteAt(@, p, c)]
                     ELSE file
          /\ caller' = [caller EXCEPT ![w] =
                           IF p = NumChunks
                           THEN [pc |-> "rename", part |-> 0, fd |-> "none"]
                           ELSE [@ EXCEPT !.part = p + 1]]
    /\ UNCHANGED <<now, debugToken, route, memoryCache, inflight, counters, cacheDir, diskFault,
                   index, lockFile, req, resp, task, builds, upstream, probe>>

\* fs.rename(tmp, target), then incCounter("write"); ENOENT when the temporary
\* file is gone.
FileRename(w) ==
    /\ caller[w].pc = "rename"
    /\ IF tmpFile[route].kind = "absent"
       THEN /\ caller' = [caller EXCEPT ![w].pc = "threw"]
            /\ UNCHANGED <<file, tmpFile, counters>>
       ELSE /\ file' = [file EXCEPT ![route] = tmpFile[route]]
            /\ tmpFile' = [tmpFile EXCEPT ![route] = NoFile]
            /\ counters' = incCounter(counters, "write")
            /\ caller' = [c \in Callers |->
                             IF c = w THEN [caller[c] EXCEPT !.pc = "index"]
                             ELSE IF caller[c].fd = "tmp" THEN [caller[c] EXCEPT !.fd = "target"]
                             ELSE IF caller[c].fd = "target" THEN [caller[c] EXCEPT !.fd = "unlinked"]
                             ELSE caller[c]]
    /\ UNCHANGED <<now, debugToken, route, memoryCache, inflight, cacheDir, diskFault, index,
                   lockFile, req, resp, task, builds, upstream, probe>>

\* fs.stat(target), readIndex, writeIndex, evictIfNeeded: the call returns.
FileIndex(w) ==
    /\ caller[w].pc = "index"
    /\ LET entry == [key |-> route, size |-> Len(file[route].chunks),
                     updatedAt |-> now, lastAccessAt |-> now]
           d == evictIfNeeded([Disk EXCEPT !.index = IdxPut(@, entry)])
       IN /\ file' = d.file
          /\ index' = d.index
          /\ counters' = d.counters
    /\ caller' = [caller EXCEPT ![w] = IdleWriter]
    /\ UNCHANGED <<now, debugToken, route, memoryCache, inflight, cacheDir, diskFault, tmpFile,
                   lockFile, req, resp, task, builds, upstream, probe>>

\* The exception of fs.rename leaves writeDiskCache.
FileThrown(w) ==
    /\ caller[w].pc = "threw"
    /\ caller' = [caller EXCEPT ![w] = IdleWriter]
    /\ UNCHANGED <<now, debugToken, route, memoryCache, inflight, counters, cacheDir, diskFault,
                   file, tmpFile, index, lockFile, req, resp, task, builds, upstream,
                   probe>>

InitWrite ==
    /\ now = StartTime
    /\ route \in Routes
    /\ IdleProcess
    /\ diskFault = "none"
    /\ cacheDir \in BOOLEAN
    /\ file = [k \in Keys |-> IF k = route /\ cacheDir THEN Bytes(Serialized(0))
                              ELSE NoFile]
    /\ index = IF cacheDir
               THEN <<[key |-> route, size |-> NumChunks, updatedAt |-> StartTime,
                       lastAccessAt |-> StartTime]>>
               ELSE <<>>
    /\ lockFile = [k \in Keys |-> NoLock]
    /\ upstream = {"ok"}
    /\ caller = [w \in Callers |-> IdleWriter]
    /\ probe = NoProbe

NextWrite ==
    \/ \E w \in Callers : FileOpen(w)
    \/ \E w \in Callers : FileChunk(w)
    \/ \E w \in Callers : FileRename(w)
    \/ \E w \in Callers : FileIndex(w)
    \/ \E w \in Callers : FileThrown(w)

SpecWrite == InitWrite /\ [][NextWrite]_vars

\* ------------------------------------------------------------ writers of the index
\* Several writeDiskCache calls under way at once for different keys (two
\* routes, or the processes that share the cache directory), from fs.stat on
\* step by step: index.json is read, changed in memory and written back.

IdleIndexer == [pc |-> "idle", key |-> "none", idx |-> <<>>]

\* writeDiskCache(k, envelope) from mkdir to fs.stat(target): the file of the
\* key is in place.
IndexStat(w, k, s) ==
    /\ caller[w].pc = "idle"
    /\ counters.write < MaxWrites
    /\ \A v \in Callers : caller[v].key # k
    /\ LET p == StorePayload(s, now)
       IN SetDisk(writeDiskCacheRenamed(Disk, k, Envelope(now, EmptyChecksum, p)))
    /\ caller' = [caller EXCEPT ![w] = [pc |-> "read", key |-> k, idx |-> <<>>]]
    /\ UNCHANGED <<now, debugToken, route, memoryCache, inflight, diskFault, tmpFile, lockFile,
                   req, resp, task, builds, upstream, probe>>

\* const index = await readIndex().
IndexRead(w) ==
    /\ caller[w].pc = "read"
    /\ caller' = [caller EXCEPT ![w].pc = "write", ![w].idx = index]
    /\ UNCHANGED <<now, debugToken, route, memoryCache, inflight, counters, cacheDir, diskFault,
                   file, tmpFile, index, lockFile, req, resp, task, builds, upstream, probe>>

\* index[cacheKey] = { size, updatedAt, lastAccessAt }; await writeIndex(index).
IndexWrite(w) ==
    /\ caller[w].pc = "write"
    /\ LET k == caller[w].key
           mine == IdxPut(caller[w].idx,
                          [key |-> k, size |-> file[k].payload.size,
                           updatedAt |-> file[k].updatedAt, lastAccessAt |-> now])
       IN /\ index' = mine
          /\ caller' = [caller EXCEPT ![w].pc = "evict", ![w].idx = mine]
    /\ UNCHANGED <<now, debugToken, route, memoryCache, inflight, counters, cacheDir, diskFault,
                   file, tmpFile, lockFile, req, resp, task, builds, upstream, probe>>

\* await evictIfNeeded(index), on the writer's own copy of the index; the
\* index file is written only when something was evicted.
IndexEvict(w) ==
    /\ caller[w].pc = "evict"
    /\ IF IdxTotal(caller[w].idx) <= MAX_DISK_BYTES
       THEN UNCHANGED <<cacheDir, file, index, counters>>
       ELSE SetDisk(evictIfNeeded([Disk EXCEPT !.index = caller[w].idx]))
    /\ caller' = [caller EXCEPT ![w] = IdleIndexer]
    /\ UNCHANGED <<now, debugToken, route, memoryCache, inflight, diskFault, tmpFile, lockFile,
                   req, resp, task, builds, upstream, probe>>

InitIndex ==
    /\ now = StartTime
    /\ route \in Routes
    /\ IdleProcess
    /\ diskFault = "none"
    /\ cacheDir = FALSE
    /\ file = [k \in StoreKeys |-> NoFile]
    /\ index = <<>>
    /\ lockFile = [k \in Keys |-> NoLock]
    /\ upstream = {"ok"}
    /\ caller = [w \in Callers |-> IdleIndexer]
    /\ probe = NoProbe

NextIndex ==
    \/ \E w \in Callers, k \in StoreKeys, s \in 1..2 : IndexStat(w, k, s)
    \/ \E w \in Callers : IndexRead(w)
    \/ \E w \in Callers : IndexWrite(w)
    \/ \E w \in Callers : IndexEvict(w)
    \/ Tick

SpecIndex == InitIndex /\ [][NextIndex]_vars

\* ------------------------------------------------------------ upstream retries
\* Calls of spotifyFetchWithRetry (the same function in both routes), each
\* against an upstream that answers any status, with or without a
\* retry-after header, or fails to answer.

Statuses == {200, 401, 429, 500}

\* response.headers.get("retry-after"): null, or the text of a number of seconds.
RetryAfterHeaders ==
    {[present |-> FALSE, seconds |-> 0], [present |-> TRUE, seconds |-> 0],
     [present |-> TRUE, seconds |-> 2]}

IdleFetcher ==
    [pc |-> "idle", attempt |-> 0, calls |-> 0, seen |-> <<>>, waitMs |-> 0, result |-> 0]

retryReturns_OneMore(status, attempt) == status # 429 \/ attempt > MAX_RETRIES

\* if (response.status !== 429 || attempt >= MAX_RETRIES) return response.
retryReturns(status, attempt) == status # 429 \/ attempt >= MAX_RETRIES

\* retryAfter ? Number(retryAfter) * 1000 : RETRY_FALLBACK_MS * (attempt + 1).
retryWaitMs(header, attempt) ==
    IF header.present THEN header.seconds * 1000 ELSE RETRY_FALLBACK_MS * (attempt + 1)

\* spotifyFetchWithRetry is called: attempt = 0 and the first spotifyFetch is
\* issued.
RetryCall(c) ==
    /\ caller[c].pc = "idle"
    /\ caller' = [caller EXCEPT ![c] = [IdleFetcher EXCEPT !.pc = "fetch", !.calls = 1]]
    /\ UNCHANGED <<now, debugToken, route, memoryCache, inflight, counters, cacheDir, diskFault,
                   file, tmpFile, index, lockFile, req, resp, task, builds, upstream, probe>>

\* The upstream answers: the response is returned, or the sleep starts.
RetryResponse(c, status, header) ==
    /\ caller[c].pc = "fetch"
    /\ LET me == [caller[c] EXCEPT !.seen = Append(@, status)]
       IN caller' = [caller EXCEPT ![c] =
              IF retryReturns(status, me.attempt)
              THEN [me EXCEPT !.pc = "returned", !.result = status]
              ELSE [me EXCEPT !.pc = "sleep", !.waitMs = retryWaitMs(header, me.attempt)]]
    /\ UNCHANGED <<now, debugToken, route, memoryCache, inflight, counters, cacheDir, diskFault,
                   file, tmpFile, index, lockFile, req, resp, task, builds, upstream, probe>>

\* The fetch fails (no answer): the exception leaves spotifyFetchWithRetry.
RetryReject(c) ==
    /\ caller[c].pc = "fetch"
    /\ caller' = [caller EXCEPT ![c].pc = "threw"]
    /\ UNCHANGED <<now, debugToken, route, memoryCache, inflight, counters, cacheDir, diskFault,
                   file, tmpFile, index, lockFile, req, resp, task, builds, upstream, probe>>

\* The timer of sleep(waitMs) fires: attempt += 1 and the next spotifyFetch is
\* issued.
RetryWake(c) ==
    /\ caller[c].pc = "sleep"
    /\ caller' = [caller EXCEPT ![c].pc = "fetch", ![c].attempt = @ + 1,
                                ![c].calls = @ + 1, ![c].waitMs = 0]
    /\ UNCHANGED <<now, debugToken, route, memoryCache, inflight, counters, cacheDir, diskFault,
                   file, tmpFile, index, lockFile, req, resp, task, builds, upstream, probe>>

\* The caller has its response or its exception.
RetryOver(c) ==
    /\ caller[c].pc \in {"returned", "threw"}
    /\ caller' = [caller EXCEPT ![c] = IdleFetcher]
    /\ UNCHANGED <<now, debugToken, route, memoryCache, inflight, counters, cacheDir, diskFault,
                   file, tmpFile, index, lockFile, req, resp, task, builds, upstream, probe>>

InitRetry ==
    /\ now = StartTime
    /\ route \in Routes
    /\ IdleProcess
    /\ diskFault = "none"
    /\ cacheDir = FALSE
    /\ file = [k \in Keys |-> NoFile]
    /\ index = <<>>
    /\ lockFile = [k \in Keys |-> NoLock]
    /\ upstream = {"ok", "http429"}
    /\ caller = [c \in Callers |-> IdleFetcher]
    /\ probe = NoProbe

NextRetry ==
    \/ \E c \in Callers : RetryCall(c)
    \/ \E c \in Callers, st \in Statuses, h \in RetryAfterHeaders : RetryResponse(c, st, h)
    \/ \E c \in Callers : RetryReject(c)
    \/ \E c \in Callers : RetryWake(c)
    \/ \E c \in Callers : RetryOver(c)

\* Every fetch is answered or fails, and every timer fires.
FairRetry ==
    \A c \in Callers :
        /\ WF_vars(RetryReject(c)
                   \/ \E st \in Statuses, h \in RetryAfterHeaders : RetryResponse(c, st, h))
        /\ WF_vars(RetryWake(c))

SpecRetry == InitRetry /\ [][NextRetry]_vars /\ FairRetry

\* ------------------------------------------------------------ memory tier alone
\* Calls of setMemoryCache and getMemoryCache on three keys.

NoCall ==
    [op |-> "none", key |-> "none", before |-> <<>>, found |-> FALSE,
     payload |-> NoPayload]

\* setMemoryCache(k, payload, ttlMs, { updatedAt, state: "ok" }).
MemSet(k, ttlMs) ==
    /\ memoryCache' = setMemoryCache(memoryCache, k, StorePayload(1, now), ttlMs,
                                     now, "ok", now)
    /\ probe' = [NoCall EXCEPT !.op = "set", !.key = k, !.before = memoryCache]
    /\ UNCHANGED <<now, debugToken, route, inflight, counters, cacheDir, diskFault, file, tmpFile,
                   index, lockFile, req, resp, task, builds, upstream, caller>>

\* getMemoryCache(k).
MemRead(k) ==
    /\ counters.hit < MaxReads
    /\ LET m == getMemoryCache(memoryCache, counters, k, now)
       IN /\ memoryCache' = m.mem
          /\ counters' = m.counters
          /\ probe' = [NoCall EXCEPT !.op = "get", !.key = k, !.before = memoryCache,
                                     !.found = m.found, !.payload = m.payload]
    /\ UNCHANGED <<now, debugToken, route, inflight, cacheDir, diskFault, file, tmpFile, index,
                   lockFile, req, resp, task, builds, upstream, caller>>

InitMem ==
    /\ now = StartTime
    /\ route \in Routes
    /\ IdleProcess
    /\ diskFault = "none"
    /\ cacheDir = FALSE
    /\ file = [k \in Keys |-> NoFile]
    /\ index = <<>>
    /\ lockFile = [k \in Keys |-> NoLock]
    /\ upstream = {"ok"}
    /\ caller = NoCallers
    /\ probe = NoCall

NextMem ==
    \/ \E k \in StoreKeys, ttlMs \in {0, PLAYLISTS_TTL_MS} : MemSet(k, ttlMs)
    \/ \E k \in StoreKeys : MemRead(k)
    \/ Tick

SpecMem == InitMem /\ [][NextMem]_vars

\* ------------------------------------------------------------ debug endpoint
\* GET /api/debug/cache, while the cache layer counts its events.

\* The secrets the deployment may have configured, and what a caller may
\* send as the token parameter.
DebugSecrets == {"s3cret", "other"}
NoParam == [given |-> FALSE, value |-> ""]
Param(v) == [given |-> TRUE, value |-> v]
TokenParams == {NoParam} \cup {Param(v) : v \in DebugSecrets \cup {""}}

debugAllowed_OmittedPasses(token, provided) ==
    token = "" \/ ~provided.given \/ provided.value = token

\* GET lets the request through when no token is configured, or when
\* url.searchParams.get("token") (null when the parameter is absent) is the
\* configured token.
debugAllowed(token, provided) ==
    token = "" \/ (provided.given /\ provided.value = token)

NoDebugCall ==
    [op |-> "none", provided |-> NoParam, status |-> 0, body |-> "none",
     counters |-> ZeroCounters]

\* GET /api/debug/cache?token=provided.
DebugGet(provided) ==
    /\ probe' = IF debugAllowed(debugToken, provided)
                THEN [op |-> "debug", provided |-> provided, status |-> 200,
                      body |-> "counters", counters |-> counters]
                ELSE [op |-> "debug", provided |-> provided, status |-> 404,
                      body |-> "Not found", counters |-> ZeroCounters]
    /\ UNCHANGED <<now, debugToken, route, memoryCache, inflight, counters, cacheDir,
                   diskFault, file, tmpFile, index, lockFile, req, resp, task, builds,
                   upstream, caller>>

\* The cache layer counts an event: incCounter(k).
CountEvent(k) ==
    /\ counters[k] < MaxReads
    /\ counters' = incCounter(counters, k)
    /\ UNCHANGED <<now, debugToken, route, memoryCache, inflight, cacheDir, diskFault,
                   file, tmpFile, index, lockFile, req, resp, task, builds, upstream,
                   caller, probe>>

InitDebug ==
    /\ now = StartTime
    /\ route \in Routes
    /\ debugToken \in DebugSecrets \cup {""}
    /\ memoryCache = <<>>
    /\ tmpFile = [k \in Keys |-> NoFile]
    /\ inflight = [k \in Keys |-> 0]
    /\ counters = ZeroCounters
    /\ req = [r \in Requests |-> IdleReq]
    /\ resp = [r \in Requests |-> NoResp]
    /\ task = [r \in Requests |-> NoTask]
    /\ builds = [k \in Keys |-> 0]
    /\ diskFault = "none"
    /\ cacheDir = FALSE
    /\ file = [k \in Keys |-> NoFile]
    /\ index = <<>>
    /\ lockFile = [k \in Keys |-> NoLock]
    /\ upstream = {"ok"}
    /\ caller = NoCallers
    /\ probe = NoDebugCall

NextDebug ==
    \/ \E provided \in TokenParams : DebugGet(provided)
    \/ \E k \in {"hit", "miss", "error"} : CountEvent(k)

SpecDebug == InitDebug /\ [][NextDebug]_vars

\* ============================================================ claims

Done(r) == req[r].pc = "done"
Settled(r) == task[r].pc = "done"

\* A refresh task that was refused the lock by a live lease.
Refused(r) == Settled(r) /\ ~task[r].granted /\ task[r].outcome = "resolved"

\* C1: when all the requests run concurrently on a stale entry that is absent
\* from memory (each served on the stale branch, none forced), the disk is
\* healthy and no refresh task was refused or failed to take the lock, the
\* rebuild function is executed exactly once: never more than once, once when
\* everything has settled, and the refresh counter is 1 when that rebuild
\* succeeded.
C1_StaleBurst ==
    /\ diskFault = "none"
    /\ \A r \in Requests :
          /\ Done(r) /\ req[r].concurrent /\ ~req[r].force /\ req[r].saw = "stale"
          /\ Settled(r) => task[r].granted

C1_ExactlyOneRebuild ==
    C1_StaleBurst =>
        /\ builds[route] <= 1
        /\ counters.refresh <= 1
        /\ (\A r \in Requests : task[r].pc \in {"none", "done"}) =>
              /\ builds[route] = 1
              /\ (\E r \in Requests : Settled(r) /\ task[r].payload.kind = "data")
                    => counters.refresh = 1

\* C2: the catch block of a refresh whose rebuild failed leaves the stored
\* value alone: the step that enters it does not change the memory tier, and
\* the step that ends its disk write does not change the payload on disk.
C2_FailedRefreshKeepsValue ==
    [][\A r \in Requests :
          /\ (task[r].pc = "building" /\ task'[r].pc = "errWriting")
                => memoryCache' = memoryCache
          /\ (task[r].pc = "errWriting" /\ task'[r].pc = "releasing")
                => file'[route].payload = file[route].payload]_vars

\* C3: no two callers hold a granted lease that is unexpired and unreleased.
Holding(c) == caller[c].pc = "held" /\ caller[c].lease.expiresAt > now

C3_LeaseMutualExclusion ==
    \A c, d \in Callers : c # d => ~(Holding(c) /\ Holding(d))

\* C4: every freshness evaluation is ok iff age < TTL, stale iff
\* TTL <= age < TTL + SWR, expired otherwise.
C4_Freshness ==
    probe.state # "none" =>
        /\ probe.state = "ok" <=> probe.age < probe.ttl
        /\ probe.state = "stale" <=>
              (probe.ttl <= probe.age /\ probe.age < probe.ttl + probe.swr)
        /\ probe.state = "expired" <=> probe.age >= probe.ttl + probe.swr

\* The two boundaries: age = TTL is stale (SWR > 0), age = TTL + SWR is expired.
C4_Witness ==
    /\ probe.swr > 0
    /\ probe.ttl > 0
    /\ \/ probe.age = probe.ttl /\ probe.state = "stale"
       \/ probe.age = probe.ttl + probe.swr /\ probe.state = "expired"

\* C5: a request (sync or async, not forced) that finds the disk entry stale
\* and nothing in memory answers 200 with the stored payload labelled stale,
\* and exactly one refresh task of the key is running when it answers.
C5_StaleServed ==
    \A r \in Requests :
        (Done(r) /\ req[r].saw = "stale") =>
            /\ resp[r].status = 200
            /\ resp[r].body = WithStale(req[r].raw.payload)
            /\ resp[r].running = 1

\* C6: an unforced request that found a checksum-valid cached value, in memory
\* or on disk and of whatever age, is not answered with an error response.
C6_NoErrorWhenCached ==
    \A r \in Requests :
        (Done(r) /\ ~req[r].force /\ req[r].saw \in {"memory", "ok", "stale", "expired"})
            => resp[r].status = 200

\* C7: a request whose synchronous rebuild produced a payload answers 200 with
\* that payload, whatever the writeDiskCache that follows does.
C7_RebuiltPayloadServed ==
    \A r \in Requests :
        (Done(r) /\ req[r].built) =>
            /\ resp[r].status = 200
            /\ resp[r].body \in {req[r].payload, WithOk(req[r].payload)}

\* C8: an async request on a miss answers with the refreshing placeholder, and
\* the task it started, unless a live lease refused it, has invoked the rebuild
\* by the time it settles; the disk is healthy, the cache directory may or may
\* not exist yet.
C8_AsyncMissRebuilds ==
    diskFault = "none" =>
        \A r \in Requests :
            /\ (Done(r) /\ req[r].async /\ ~req[r].force
                        /\ req[r].saw \in {"absent", "expired"})
                  => resp[r].status = 200 /\ resp[r].body.state = "refreshing"
            /\ (Settled(r) /\ task[r].via = "miss" /\ ~Refused(r)) => task[r].built

\* C9: at most one task started through singleFlight runs per key, and a
\* caller that arrives while a task of the key is running gets that task's
\* promise and does not invoke its own fn.
C9_SingleFlight ==
    /\ \A k \in Keys : Running(task, k) <= 1
    /\ \A r \in Requests :
          req[r].during # 0 => req[r].joined = req[r].during /\ ~req[r].invoked

\* A caller joined the running task of another caller.
C9_Witness ==
    \E r \in Requests :
        /\ req[r].during \notin {0, r}
        /\ req[r].joined = req[r].during
        /\ task[req[r].joined].pc = "running"

\* C10: a settled task, resolved or rejected, is no longer registered; what is
\* registered is running; and a caller that arrives when no task of the key is
\* running invokes its own fn.
C10_RegistrationEndsWithTask ==
    /\ \A r \in Requests : Settled(r) => inflight[task[r].key] # r
    /\ \A k \in Keys : isInflight(k) => inflight[k] \in RunningTasks(task, k)
    /\ \A r \in Requests :
          (req[r].joined # 0 /\ req[r].during = 0) => req[r].invoked /\ req[r].joined = r

\* After a task of the key was rejected, the next caller invoked its own fn,
\* which is the one registered now.
C10_Witness ==
    \E r, q \in Requests :
        /\ r # q
        /\ Settled(q) /\ task[q].outcome = "rejected"
        /\ inflight[task[q].key] = r
        /\ req[r].invoked /\ task[r].key = task[q].key /\ task[r].pc = "running"

C12_ExpiredLeaseGranted ==
    [][\A c \in Callers :
          (caller[c].pc = "write" /\ caller'[c].pc # "write") =>
              /\ caller'[c].pc = "held"
              /\ lockFile'[route].kind = "lease"
              /\ lockFile'[route].expiresAt = caller[c].lockNow + LOCK_LEASE_MS]_vars

\* The errorCode that names the class of a rebuild failure.
FailureClass(failure) ==
    IF failure = "auth" THEN "auth_required"
    ELSE IF failure = "credentials" THEN "credentials_missing"
    ELSE IF failure = "http429" THEN "rate_limit"
    ELSE "error"

\* C13: the step in which the rebuild of a background refresh fails leaves the
\* key's entry in state error with the errorCode of the failure's class, on
\* either route.
C13_ErrorCodeClassified ==
    [][\A r \in Requests, o \in Failures :
          TaskBuildDone(r, o) =>
              /\ MemHas(memoryCache', route)
              /\ MemGet(memoryCache', route).state = "error"
              /\ MemGet(memoryCache', route).payload.state = "error"
              /\ MemGet(memoryCache', route).payload.errorCode = FailureClass(o)]_vars

\* C14: a readDiskCache of a key whose file is as the last completed
\* writeDiskCache of that key left it returns an envelope with the payload that
\* was written.
C14_RoundTrip ==
    (/\ probe.op = "read"
     /\ probe.written[probe.key] # NoPayload
     /\ probe.raw.kind = "envelope"
     /\ probe.raw.payload = probe.written[probe.key])
        => /\ probe.env.kind = "envelope"
           /\ probe.env.payload = probe.written[probe.key]

\* The content of a file that readDiskCache cannot use.
Unusable(raw) ==
    \/ raw.kind \in {"absent", "unreadable", "garbage"}
    \/ /\ raw.kind = "envelope"
       /\ raw.checksum # EmptyChecksum
       /\ raw.checksum # computeChecksum(raw.payload)

\* C15: readDiskCache does not throw, and returns null for a missing file, an
\* unreadable file, content that is not JSON and a payload that differs from
\* the one its checksum was computed over.
C15_ReadNeverThrows ==
    probe.op = "read" =>
        /\ ~probe.threw
        /\ Unusable(probe.raw) => probe.env = NoFile

\* A read of a file whose stored payload was changed returned null.
C15_Witness ==
    /\ probe.op = "read"
    /\ probe.raw.kind = "envelope"
    /\ probe.raw.payload.kind = "tampered"
    /\ ~probe.threw
    /\ probe.env = NoFile

\* C16: the envelope a writeDiskCache puts in a file carries the digest of
\* its own payload as checksum, whatever checksum the caller passed.
C16_ChecksumOfPayload ==
    [][\A k \in StoreKeys :
          (caller.pc = "idle" /\ caller'.pc = "evict" /\ caller'.key = k) =>
              file'[k].checksum = computeChecksum(file'[k].payload)]_vars

\* C18: when no writeDiskCache is under way, the sizes in the index sum to at
\* most MAX_DISK_BYTES.
C18_DiskBudget ==
    caller.pc = "idle" => IdxTotal(index) <= MAX_DISK_BYTES

\* A write of an entry larger than the budget has completed.
C18_Witness ==
    /\ caller.pc = "idle"
    /\ probe.op = "write"
    /\ probe.written[probe.key].size > MAX_DISK_BYTES
    /\ counters.evict > 0

\* C19: an eviction pass removes nothing when the total is within budget;
\* otherwise no entry it removes is younger (by lastAccessAt) than one it keeps,
\* and the total was still over budget before its last removal.
C19_EvictionOrder ==
    [][(caller.pc = "evict" /\ caller'.pc = "idle") =>
          LET removed == {i \in 1..Len(index) : IdxPos(index', index[i].key) = 0}
              kept == (1..Len(index)) \ removed
          IN /\ \A i \in removed, j \in kept :
                    index[i].lastAccessAt <= index[j].lastAccessAt
             /\ IdxTotal(index) <= MAX_DISK_BYTES => index' = index
             /\ removed # {} =>
                    \E i \in removed :
                        /\ \A g \in removed : index[g].lastAccessAt <= index[i].lastAccessAt
                        /\ IdxTotal(index') + index[i].size > MAX_DISK_BYTES]_vars

\* An eviction pass removed an older entry and kept a younger one.
C19_Witness ==
    /\ caller.pc = "idle"
    /\ counters.evict > 0
    /\ \E i \in 1..Len(index) : index[i].lastAccessAt > StartTime
    /\ \E k \in StoreKeys : probe.written[k] # NoPayload /\ IdxPos(index, k) = 0

\* C20: whatever sets and gets were made, the memory tier holds at most
\* MAX_MEMORY_ITEMS entries.
C20_MemoryLimit == Len(memoryCache) <= MAX_MEMORY_ITEMS

\* A set of a new key into a full memory tier has returned.
C20_Witness ==
    /\ probe.op = "set"
    /\ Len(probe.before) = MAX_MEMORY_ITEMS
    /\ ~MemHas(probe.before, probe.key)
    /\ MemHas(memoryCache, probe.key)
    /\ Len(memoryCache) = MAX_MEMORY_ITEMS

\* C17: the content at the key's path is at every moment the complete JSON
\* text of one writer's envelope (or of the envelope that was there before),
\* and no writeDiskCache fails on its rename.
C17_NoTornFile ==
    /\ file[route].kind = "bytes" =>
          \E w \in Callers \cup {0} : file[route].chunks = Serialized(w)
    /\ \A w \in Callers : caller[w].pc # "threw"

\* C21: a setMemoryCache or a successful getMemoryCache stamps the entry of its
\* key with the present time and leaves the lastAccessAt of every other entry
\* alone; and no entry a setMemoryCache removes has a larger lastAccessAt than
\* an entry it keeps.
C21_LeastRecentlyAccessedRemoved ==
    [][(now' = now /\ probe'.op \in {"set", "get"} /\ probe'.before = memoryCache) =>
          LET k == probe'.key
              removed == {i \in 1..Len(memoryCache) : ~MemHas(memoryCache', memoryCache[i].key)}
          IN /\ (probe'.op = "set" \/ probe'.found) =>
                    /\ MemHas(memoryCache', k)
                    /\ MemGet(memoryCache', k).lastAccessAt = now
             /\ \A i \in 1..Len(memoryCache) :
                    (i \notin removed /\ memoryCache[i].key # k) =>
                        MemGet(memoryCache', memoryCache[i].key).lastAccessAt
                            = memoryCache[i].lastAccessAt
             /\ probe'.op = "set" =>
                    \A i \in removed, j \in 1..Len(memoryCache') :
                        memoryCache[i].lastAccessAt <= memoryCache'[j].lastAccessAt]_vars

\* A set into a full memory tier removed an entry that was inserted after an
\* entry it kept: the kept one had been read since.
C21_Witness ==
    /\ probe.op = "set"
    /\ \E i, j \in 1..Len(probe.before) :
          /\ j < i
          /\ ~MemHas(memoryCache, probe.before[i].key)
          /\ MemHas(memoryCache, probe.before[j].key)
          /\ probe.before[i].lastAccessAt < probe.before[j].lastAccessAt

\* C22: a getMemoryCache(key) of a key that is missing, or whose expiresAt is
\* before now, returns absent, leaves no entry of the key and no counter
\* changed; any other get returns the stored payload, leaves the entry with
\* lastAccessAt = now and the hit counter one higher; no other entry and no
\* other counter changes.
C22_GetMemoryCache ==
    [][(now' = now /\ probe'.op = "get" /\ probe'.before = memoryCache) =>
          LET k == probe'.key
              live == /\ MemHas(memoryCache, k)
                      /\ ~(MemGet(memoryCache, k).expiresAt < now)
          IN IF live
             THEN /\ probe'.found
                  /\ probe'.payload = MemGet(memoryCache, k).payload
                  /\ memoryCache' =
                        [memoryCache EXCEPT ![MemPos(memoryCache, k)].lastAccessAt = now]
                  /\ counters' = [counters EXCEPT !.hit = @ + 1]
             ELSE /\ ~probe'.found
                  /\ probe'.payload = NoPayload
                  /\ memoryCache' = SelectSeq(memoryCache, LAMBDA e : e.key # k)
                  /\ counters' = counters]_vars

\* After an earlier hit, a get found the entry of its key expired and deleted
\* it.
C22_Witness ==
    /\ probe.op = "get"
    /\ MemHas(probe.before, probe.key)
    /\ MemGet(probe.before, probe.key).expiresAt < now
    /\ ~probe.found
    /\ ~MemHas(memoryCache, probe.key)
    /\ counters.hit > 0

\* C23: a response served with x-cache: stale is 200 with the payload of the
\* envelope the request read, labelled stale, and no later step changes a
\* response that was returned: not the success of the refresh it started, not
\* a failed rebuild, a refused lock, or a failed lease or disk write.
C23_StaleResponseFixed ==
    [][\A r \in Requests :
          /\ (req'[r].pc = "done" /\ resp'[r].xcache = "stale") =>
                /\ resp'[r].status = 200
                /\ resp'[r].body = [req'[r].raw.payload EXCEPT !.state = "stale"]
          /\ req[r].pc = "done" => resp'[r] = resp[r]]_vars

\* A stale response whose refresh task was rejected (the lease write or the
\* disk write of the catch block failed) after it was returned.
C23_Witness ==
    \E r \in Requests :
        /\ Done(r) /\ resp[r].xcache = "stale" /\ resp[r].status = 200
        /\ req[r].joined # 0
        /\ Settled(req[r].joined)
        /\ task[req[r].joined].outcome = "rejected"

\* C24: the step in which the synchronous rebuild of a request fails returns
\* an error response with the status of the failure's class: 401 for auth
\* required, 400 for credentials missing, 401 for an upstream 401/403, 429 for
\* a rate limit in the artists route, 500 for anything else.
C24_ErrorStatusByClass ==
    [][\A r \in Requests, o \in Failures :
          ReqBuildDone(r, o) =>
              resp'[r].status =
                  IF o = "auth" THEN 401
                  ELSE IF o = "credentials" THEN 400
                  ELSE IF o = "http401" THEN 401
                  ELSE IF o = "http429" /\ route = "artists" THEN 429
                  ELSE 500]_vars

\* C25: the step of an unforced request that finds an entry with age < TTL,
\* in memory at its entry or on disk after readDiskCache, answers 200 with the
\* payload of that entry and leaves alone the rebuild count, the inflight
\* map, the tasks, the lease files, the cache files and the index.
C25_FreshHitTriggersNothing ==
    [][\A r \in Requests :
          LET fromMemory ==
                  /\ req[r].pc = "idle" /\ req'[r].pc # "idle"
                  /\ MemHas(memoryCache, route)
                  /\ now - MemGet(memoryCache, route).updatedAt < TTL(route)
              fromDisk ==
                  /\ req[r].pc = "diskGot" /\ req'[r].pc # "diskGot"
                  /\ parseDiskCache(req[r].raw, now).kind = "envelope"
                  /\ now - parseDiskCache(req[r].raw, now).updatedAt < TTL(route)
              served == IF fromMemory THEN MemGet(memoryCache, route).payload
                        ELSE parseDiskCache(req[r].raw, now).payload
          IN (~req'[r].force /\ (fromMemory \/ fromDisk)) =>
                /\ req'[r].pc = "done"
                /\ resp'[r].status = 200
                /\ resp'[r].body = served
                /\ UNCHANGED <<builds, inflight, task, lockFile, file, tmpFile, index>>]_vars

\* A request was served an entry of age 1 from disk, and no rebuild, task or
\* lease exists.
C25_Witness ==
    \E r \in Requests :
        /\ Done(r) /\ ~req[r].force /\ req[r].saw = "ok"
        /\ now - req[r].raw.updatedAt = 1
        /\ resp[r].status = 200 /\ resp[r].body = req[r].raw.payload
        /\ builds[route] = 0
        /\ inflight[route] = 0
        /\ \A q \in Requests : task[q].pc = "none"
        /\ lockFile[route] = NoLock

\* C26: an acquireLock whose read of the lease file finds a lease with
\* expiresAt > now (`now` taken at the call) returns not-granted in that step,
\* and the lease file keeps the holder's ownerId, acquiredAt and expiresAt.
C26_LiveLeaseRefused ==
    [][\A c \in Callers :
          (/\ caller[c].pc = "read" /\ caller'[c].pc # "read"
           /\ lockFile[route].kind = "lease"
           /\ lockFile[route].expiresAt > caller[c].lockNow) =>
              /\ caller'[c].pc = "idle"
              /\ caller'[c].lease = NoLock
              /\ lockFile' = lockFile]_vars

\* A caller has been refused by the live lease of another process, which is
\* still in the lease file.
C26_Witness ==
    /\ lockFile[route] = Lease(0, StartTime)
    /\ \E c \in Callers :
          /\ caller[c].pc = "idle"
          /\ caller[c].lockNow = StartTime
          /\ caller[c].lease = NoLock

\* C27: the updatedAt of the key's stored envelope is the time of the last
\* successful rebuild: the step that ends the disk write of a successful
\* refresh stores the time its payload was built, and the step that ends the
\* disk write of a failed refresh leaves the stored updatedAt as it was.
C27_UpdatedAtIsLastGoodRebuild ==
    [][\A r \in Requests :
          /\ (task[r].pc = "writing" /\ task'[r].pc = "releasing")
                => file'[route].updatedAt = task[r].payload.updatedAt
          /\ (task[r].pc = "errWriting" /\ task'[r].pc = "releasing")
                => file'[route].updatedAt = file[route].updatedAt]_vars

\* C28: with a token configured, a GET of the debug endpoint answers 200 with
\* the present counters when its token parameter is the configured token, and
\* 404 without counters when the parameter is absent or different.
C28_DebugTokenGuards ==
    [][(probe' # probe /\ debugToken # "") =>
          IF probe'.provided.given /\ probe'.provided.value = debugToken
          THEN /\ probe'.status = 200
               /\ probe'.body = "counters"
               /\ probe'.counters = counters
          ELSE /\ probe'.status = 404
               /\ probe'.body # "counters"
               /\ probe'.counters = ZeroCounters]_vars

\* With a token configured and events counted, a request that omitted the
\* token was answered 404.
C28_Witness ==
    /\ debugToken # ""
    /\ counters # ZeroCounters
    /\ probe.op = "debug"
    /\ ~probe.provided.given
    /\ probe.status = 404
    /\ probe.counters = ZeroCounters

\* C29: the step that returns a response with x-cache: hit serves a payload
\* whose age, now - updatedAt, is below the route's TTL, from the memory tier
\* and from the disk tier alike.
C29_FreshHitWithinTTL ==
    [][\A r \in Requests :
          (req[r].pc # "done" /\ req'[r].pc = "done" /\ resp'[r].xcache = "hit") =>
              now - resp'[r].body.updatedAt < TTL(route)]_vars

\* C30: at any moment at most one execution of the rebuild function of the
\* key is in progress in the process, counting the synchronous rebuilds of
\* the requests and the rebuilds of the refresh tasks.
C30_OneRebuildInProgress ==
    Cardinality({r \in Requests : req[r].pc = "building"})
        + Cardinality({r \in Requests : task[r].pc = "building"}) <= 1

\* C31: when a writeDiskCache(key, envelope) has returned and the file of key
\* is still there, the index has an entry for key with the size of that file
\* and the updatedAt of the envelope that was written.
C31_IndexEntryOfWrite ==
    (caller.pc = "idle" /\ probe.op = "write" /\ file[probe.key].kind = "envelope") =>
        /\ IdxPos(index, probe.key) # 0
        /\ index[IdxPos(index, probe.key)].size = file[probe.key].payload.size
        /\ index[IdxPos(index, probe.key)].updatedAt = probe.written[probe.key].updatedAt

\* The third write has returned without any eviction and two keys are on
\* disk: a key was overwritten, and the key written last is indexed.
C31_Witness ==
    /\ caller.pc = "idle" /\ probe.op = "write"
    /\ counters.write = 3 /\ counters.evict = 0
    /\ Len(index) = 2
    /\ file[probe.key].kind = "envelope"
    /\ IdxPos(index, probe.key) # 0

C33_LegacyReadAnyJson ==
    (probe.op = "read" /\ probe.raw.kind \in {"legacy", "primitive"}) =>
        /\ probe.env.kind = "envelope"
        /\ probe.env.payload = probe.raw.payload
        /\ probe.env.checksum = computeChecksum(probe.raw.payload)

\* C33 as amended: a readDiskCache of a file that holds a JSON object without
\* a payload field returns an envelope whose payload is the parsed object and
\* whose checksum is the digest of that object.
C33_LegacyReadObject ==
    (probe.op = "read" /\ probe.raw.kind = "legacy") =>
        /\ ~probe.threw
        /\ probe.env.kind = "envelope"
        /\ probe.env.payload = probe.raw.payload
        /\ probe.env.checksum = computeChecksum(probe.raw.payload)

\* A legacy file has been read and came back as an envelope.
C33_Witness ==
    /\ probe.op = "read"
    /\ probe.raw.kind = "legacy"
    /\ probe.raw.payload.kind = "data"
    /\ probe.env.kind = "envelope"
    /\ probe.env.payload = probe.raw.payload

\* C34: once a request has read the key's legacy file, the file is eventually
\* rewritten: it does not stay in legacy form for ever while unforced requests
\* keep being served.
C34_LegacyMigrates ==
    (\E r \in Requests : Done(r) /\ req[r].raw.kind = "legacy")
        ~> (file[route].kind # "legacy")

\* C35: releaseLock ends only the caller's own hold: when the caller's lease
\* has expired and the lease file holds the live lease of a later acquirer,
\* the caller's releaseLock leaves that lease in place.
C35_ReleaseOwnHoldOnly ==
    [][\A c \in Callers :
          /\ caller[c].pc = "held" /\ caller'[c].pc = "idle"
          /\ caller[c].lease.expiresAt <= now
          /\ lockFile[route].ownerId # c
          /\ lockIsLive(lockFile[route], now)
          => lockFile'[route] = lockFile[route]]_vars

\* C36: when writeDiskCache calls for different keys, run concurrently, have
\* all completed and nothing was evicted, every key whose cache file exists
\* has an entry in the index.
C36_NoIndexUpdateLost ==
    (\A w \in Callers : caller[w].pc = "idle") /\ counters.evict = 0
        => \A k \in StoreKeys : file[k].kind # "absent" => IdxPos(index, k) # 0

\* C37: a refresh task that is refused the lock changes nothing: the step that
\* ends it met the live lease of another owner and leaves it in place, starts
\* no rebuild, and writes neither the memory tier nor the disk nor a counter.
C37_RefusedTaskChangesNothing ==
    [][\A r \in Requests :
          task[r].pc = "lockRead" /\ task'[r].pc = "done"
          => /\ ~task'[r].granted /\ ~task'[r].built
             /\ lockFile[route].kind = "lease" /\ lockFile[route].ownerId # r
             /\ lockFile[route].expiresAt > task[r].lockNow
             /\ UNCHANGED <<lockFile, builds, memoryCache, file, tmpFile, index, counters,
                            cacheDir>>]_vars

C37_Witness ==
    \E r \in Requests :
        /\ task[r].pc = "done" /\ task[r].outcome = "resolved" /\ ~task[r].granted
        /\ lockFile[route].kind = "lease" /\ lockFile[route].ownerId # r
        /\ builds[route] = 0

\* C38: every request increments exactly one of the counters hit, stale and
\* miss (so, with every request answered, their sum is the number of
\* requests), and a step of a request increments hit only when it answers the
\* request from the cache with x-cache: hit.
C38_OneCounterPerRequest ==
    /\ []((\A r \in Requests : req[r].pc \in {"idle", "done"})
            => counters.hit + counters.stale + counters.miss
                   = Cardinality({r \in Requests : req[r].pc = "done"}))
    /\ [][\A r \in Requests :
              req'[r] # req[r] /\ counters'.hit > counters.hit
              => req'[r].pc = "done" /\ resp'[r].xcache = "hit"]_vars

\* C39: spotifyFetchWithRetry ends after at most MAX_RETRIES + 1 upstream
\* calls: every response before the last was a 429, it returns the first
\* response that is not a 429 or the response of call MAX_RETRIES + 1, and a
\* call under way comes to its end.
C39_RetryBounded ==
    /\ [](\A c \in Callers :
            LET me == caller[c]
            IN /\ me.calls <= MAX_RETRIES + 1
               /\ \A i \in 1..Len(me.seen) :
                      i < Len(me.seen) \/ me.pc \in {"fetch", "sleep"} => me.seen[i] = 429
               /\ me.pc = "returned"
                      => /\ me.result = me.seen[Len(me.seen)]
                         /\ me.calls = Len(me.seen)
                         /\ me.result = 429 => me.calls = MAX_RETRIES + 1)
    /\ \A c \in Callers :
           (caller[c].pc = "fetch") ~> (caller[c].pc \in {"returned", "threw"})

C39_Witness ==
    \E c \in Callers :
        /\ caller[c].pc = "returned" /\ caller[c].result = 429
        /\ caller[c].calls = MAX_RETRIES + 1

====
